---- MODULE Spec2Model ----
(***************************************************************************)
(* Model of the statement ingestion and classification pipeline:           *)
(*   api/app/repo.py            apply_rules, reapply_all                   *)
(*   api/app/worker.py          queue_parse                                *)
(*   api/app/main.py            upload_pdf, add_rule,                      *)
(*                              reapply_rules                              *)
(*   api/app/parsers/maybank.py parse_maybank_pdf, _infer_date,            *)
(*                              _parse_amount, _normalise_description,     *)
(*                              CATEGORY_MAPPING                           *)
(*   api/app/parser.py          parse_pdf_bytes                            *)
(*   api/alembic/versions/0001_init.py  uq_txn_upsert_guard                *)
(*                                                                         *)
(* Python's None is the empty tuple <<>> and a present value v is <<v>>.   *)
(* Text is a sequence of one-character strings.                            *)
(***************************************************************************)
EXTENDS Integers, Sequences, FiniteSets, TLC

None == <<>>
Some(v) == <<v>>

\* ------------------------------------------------------------------ bounds
\* number of rules in a list handed to apply_rules (rule ids are 1..MaxRuleList)
MaxRuleList == 3

\* -------------------------------------------------------------------- text
UpperAlphabet == <<"A","B","C","D","E","F","G","H","I","J","K","L","M",
                   "N","O","P","Q","R","S","T","U","V","W","X","Y","Z">>
LowerAlphabet == <<"a","b","c","d","e","f","g","h","i","j","k","l","m",
                   "n","o","p","q","r","s","t","u","v","w","x","y","z">>

\* str.lower() on one character
LowerChar(c) ==
    IF \E i \in 1..Len(UpperAlphabet) : UpperAlphabet[i] = c
    THEN LowerAlphabet[CHOOSE i \in 1..Len(UpperAlphabet) : UpperAlphabet[i] = c]
    ELSE c

\* str.lower()
lower(s) == [i \in 1..Len(s) |-> LowerChar(s[i])]

\* Python's `p in s` on strings: p occurs in s as a contiguous substring
Contains(p, s) ==
    \E k \in 0..(Len(s) - Len(p)) : \A i \in 1..Len(p) : s[k + i] = p[i]

\* `x or ""` on a text that may be None (None and "" are both falsy)
OrEmpty(x) == IF x = None THEN <<>> ELSE x

\* str.strip(): leading and trailing blanks removed
RECURSIVE LStrip(_)
LStrip(s) == IF s # <<>> /\ Head(s) = " " THEN LStrip(Tail(s)) ELSE s
RECURSIVE RStrip(_)
RStrip(s) ==
    IF s # <<>> /\ s[Len(s)] = " " THEN RStrip(SubSeq(s, 1, Len(s) - 1)) ELSE s
Strip(s) == RStrip(LStrip(s))

Coffee_shop == <<"C","o","f","f","e","e"," ","s","h","o","p">>
Tea_house == <<"T","e","a"," ","h","o","u","s","e">>
coffee == <<"c","o","f","f","e","e">>
TEA == <<"T","E","A">>

\* ------------------------------------------------------------ rule engine
\* repo.py:8  sorted(rules, key=lambda x: (r.priority, r.id)).  The key
\* function ignores its argument x and reads r, the loop variable of the
\* enclosing for statement, which is still unbound while sorted() runs:
\* the first call of the key raises NameError.  sorted() calls the key once
\* per element, so only the empty list is sorted without an exception.
sorted_rules(rules) ==
    IF Len(rules) = 0
    THEN [raised |-> FALSE, out |-> <<>>]
    ELSE [raised |-> TRUE, out |-> <<>>]

\* repo.py:8-18  the for loop over the sorted list: skip rules that are not
\* active; the first rule whose lowered pattern occurs in desc assigns both
\* fields and breaks; falling off the end changes nothing.
RECURSIVE scan_rules(_, _, _)
scan_rules(desc, srt, tx) ==
    IF srt = <<>> THEN tx
    ELSE LET r == Head(srt) IN
         IF r.status # "active" THEN scan_rules(desc, Tail(srt), tx)
         ELSE IF Contains(lower(r.pattern), desc)
              THEN [tx EXCEPT !.category_id = r.category_id,
                              !.subcategory = r.subcategory]
              ELSE scan_rules(desc, Tail(srt), tx)

\* the variant of the loop that sets both fields unconditionally: no match
\* clears them
RECURSIVE scan_rules_clearing(_, _, _)
scan_rules_clearing(desc, srt, tx) ==
    IF srt = <<>> THEN [tx EXCEPT !.category_id = None, !.subcategory = None]
    ELSE LET r == Head(srt) IN
         IF r.status # "active" THEN scan_rules_clearing(desc, Tail(srt), tx)
         ELSE IF Contains(lower(r.pattern), desc)
              THEN [tx EXCEPT !.category_id = r.category_id,
                              !.subcategory = r.subcategory]
              ELSE scan_rules_clearing(desc, Tail(srt), tx)

\* the list ordered by (priority, id), as a sort key that reads its argument
\* would order it
RECURSIVE sorted_by_priority_id(_)
sorted_by_priority_id(rules) ==
    IF rules = <<>> THEN <<>>
    ELSE LET Before(a, b) == \/ a.priority < b.priority
                             \/ a.priority = b.priority /\ a.id <= b.id
             m == CHOOSE i \in 1..Len(rules) :
                    \A j \in 1..Len(rules) : Before(rules[i], rules[j])
             rest == [k \in 1..(Len(rules) - 1) |->
                        IF k < m THEN rules[k] ELSE rules[k + 1]]
         IN <<rules[m]>> \o sorted_by_priority_id(rest)

\* the variant of apply_rules that sorts without an exception and assigns
\* both fields on every call
apply_rules_clearing(tx, rules) ==
    LET desc == lower(OrEmpty(tx.description))
    IN [raised |-> FALSE,
        tx |-> scan_rules_clearing(desc, sorted_by_priority_id(rules), tx)]

\* the variant of apply_rules that sorts without an exception and never
\* looks at a rule's status
RECURSIVE scan_rules_any_status(_, _, _)
scan_rules_any_status(desc, srt, tx) ==
    IF srt = <<>> THEN tx
    ELSE LET r == Head(srt) IN
         IF Contains(lower(r.pattern), desc)
         THEN [tx EXCEPT !.category_id = r.category_id,
                         !.subcategory = r.subcategory]
         ELSE scan_rules_any_status(desc, Tail(srt), tx)

apply_rules_any_status(tx, rules) ==
    LET desc == lower(OrEmpty(tx.description))
    IN [raised |-> FALSE,
        tx |-> scan_rules_any_status(desc, sorted_by_priority_id(rules), tx)]

\* the variant of apply_rules that assigns both fields on every call and
\* raises on every transaction but the first of the table
apply_rules_failing_late(tx, rules) ==
    IF tx.id > 1 THEN [raised |-> TRUE, tx |-> tx]
    ELSE apply_rules_clearing(tx, rules)

\* repo.py:6-18  apply_rules(db, tx, rules): the transaction after the call
\* and whether the call raised
apply_rules(tx, rules) ==
    LET desc == lower(OrEmpty(tx.description))
        s == sorted_rules(rules)
    IN IF s.raised THEN [raised |-> TRUE, tx |-> tx]
       ELSE [raised |-> FALSE, tx |-> scan_rules(desc, s.out, tx)]

\* ------------------------------------------------------ parser helpers
Digits == <<"0","1","2","3","4","5","6","7","8","9">>
IsDigit(c) == \E i \in 1..Len(Digits) : Digits[i] = c
DigitVal(c) == (CHOOSE i \in 1..Len(Digits) : Digits[i] = c) - 1

\* the two-character decimal form of n, as the row pattern's \d{2} captures it
TwoDigits(n) == <<Digits[(n \div 10) + 1], Digits[(n % 10) + 1]>>

\* str.split(sep): the pieces of s between occurrences of the character sep
RECURSIVE Split(_, _)
Split(s, sep) ==
    IF \E i \in 1..Len(s) : s[i] = sep
    THEN LET i == CHOOSE k \in 1..Len(s) :
                    s[k] = sep /\ \A j \in 1..(k - 1) : s[j] # sep
         IN <<SubSeq(s, 1, i - 1)>> \o Split(SubSeq(s, i + 1, Len(s)), sep)
    ELSE <<s>>

\* int(s) on a run of decimal digits: Some(value), or None where int() raises
\* ValueError
RECURSIVE DigitsValue(_)
DigitsValue(s) ==
    IF s = <<>> THEN 0
    ELSE 10 * DigitsValue(SubSeq(s, 1, Len(s) - 1)) + DigitVal(s[Len(s)])
ParseInt(s) ==
    IF s # <<>> /\ \A i \in 1..Len(s) : IsDigit(s[i])
    THEN Some(DigitsValue(s))
    ELSE None

\* the calendar behind datetime(year, month, day)
IsLeap(y) == (y % 4 = 0 /\ y % 100 # 0) \/ y % 400 = 0
DaysIn(y, m) ==
    IF m = 2 THEN (IF IsLeap(y) THEN 29 ELSE 28)
    ELSE IF m \in {4, 6, 9, 11} THEN 30 ELSE 31
ValidDate(y, m, d) ==
    /\ y \in 1..9999
    /\ m \in 1..12
    /\ d \in 1..DaysIn(y, m)

\* the year every token gets: the statement year
InferYear_NoRollback(month, year, anchor_month) == year

\* maybank.py:89-91  year = stmt_year; if month > stmt_month: year -= 1
InferYear(month, year, anchor_month) ==
    IF month > anchor_month THEN year - 1 ELSE year

\* maybank.py:77-95  _infer_date(day_month, stmt_year, stmt_month): the date
\* as <<year, month, day>>, or None when the token does not split into two
\* integers or datetime() rejects the date
_infer_date(day_month, year, anchor_month) ==
    LET parts == Split(day_month, "/") IN
    IF Len(parts) # 2 \/ ParseInt(parts[1]) = None \/ ParseInt(parts[2]) = None
    THEN None
    ELSE LET day == ParseInt(parts[1])[1]
             month == ParseInt(parts[2])[1]
             y == InferYear(month, year, anchor_month)
         IN IF ValidDate(y, month, day) THEN Some(<<y, month, day>>) ELSE None

\* str.replace(c, ""): every occurrence of the character c removed
Remove(s, c) ==
    LET keep == { i \in 1..Len(s) : s[i] # c }
        Nth(n) == CHOOSE i \in keep : Cardinality({ j \in keep : j <= i }) = n
    IN [n \in 1..Cardinality(keep) |-> s[Nth(n)]]

\* maybank.py:119  re.sub(r"[RM\$]\s*", "", s, flags=re.IGNORECASE): every
\* R, M, r, m and $ is removed together with the blanks that follow it
RECURSIVE RemoveCurrency(_)
RemoveCurrency(s) ==
    IF s = <<>> THEN <<>>
    ELSE IF Head(s) \in {"R", "M", "r", "m", "$"}
         THEN RemoveCurrency(LStrip(Tail(s)))
         ELSE <<Head(s)>> \o RemoveCurrency(Tail(s))

\* maybank.py:126  re.sub(r"CR$", "", s, flags=re.IGNORECASE)
RemoveTrailingCR(s) ==
    IF Len(s) >= 2 /\ lower(SubSeq(s, Len(s) - 1, Len(s))) = <<"c", "r">>
    THEN SubSeq(s, 1, Len(s) - 2)
    ELSE s

\* str.lstrip("-")
RECURSIVE LStripMinus(_)
LStripMinus(s) == IF s # <<>> /\ Head(s) = "-" THEN LStripMinus(Tail(s)) ELSE s

\* float(s) on decimal notation: blanks around the text are ignored, one
\* sign may lead, then digits with at most one point and at least one
\* digit.  The value is num / 10^scale.  None where float() raises
\* ValueError.  (float also reads exponents, underscores, inf and nan, which
\* need characters no amount token of this model holds.)
ParseFloat(s) ==
    LET t == Strip(s)
        signed == t # <<>> /\ Head(t) \in {"+", "-"}
        body == IF signed THEN Tail(t) ELSE t
        points == { i \in 1..Len(body) : body[i] = "." }
        digits == Remove(body, ".")
    IN IF /\ digits # <<>>
          /\ Cardinality(points) <= 1
          /\ \A i \in 1..Len(digits) : IsDigit(digits[i])
       THEN Some([num |-> (IF signed /\ Head(t) = "-" THEN -1 ELSE 1)
                            * DigitsValue(digits),
                  scale |-> IF points = {} THEN 0
                            ELSE Len(body) - (CHOOSE i \in points : TRUE)])
       ELSE None

\* the credit test that only looks at the flag
IsCredit_FlagOnly(s, is_credit) == is_credit

\* maybank.py:121-123  credit = is_credit or s.endswith(")"); a text wrapped
\* in parentheses is a credit as well
IsCredit(s, is_credit) ==
    \/ is_credit
    \/ s # <<>> /\ s[Len(s)] = ")"

\* maybank.py:111-138  _parse_amount(amount_str, is_credit): the signed
\* value, or None when float() rejects what is left of the token
_parse_amount(amount_str, is_credit) ==
    LET s1 == RemoveCurrency(Remove(Strip(amount_str), ","))
        credit == IsCredit(s1, is_credit)
        wrapped == s1 # <<>> /\ Head(s1) = "(" /\ s1[Len(s1)] = ")"
        s2 == IF wrapped THEN SubSeq(s1, 2, Len(s1) - 1) ELSE s1
        s3 == Strip(RemoveTrailingCR(s2))
        minus == s3 # <<>> /\ Head(s3) = "-"
        s4 == IF minus THEN LStripMinus(s3) ELSE s3
        value == ParseFloat(s4)
    IN IF value = None THEN None
       ELSE Some([num |-> (IF credit \/ minus THEN -1 ELSE 1) * value[1].num,
                  scale |-> value[1].scale])

\* ---------------------------------------------------- the keyword mapper
\* str.upper() on one character
UpperChar(c) ==
    IF \E i \in 1..Len(LowerAlphabet) : LowerAlphabet[i] = c
    THEN UpperAlphabet[CHOOSE i \in 1..Len(LowerAlphabet) : LowerAlphabet[i] = c]
    ELSE c

\* str.upper()
upper(s) == [i \in 1..Len(s) |-> UpperChar(s[i])]

\* maybank.py:54-74  the category names of CATEGORY_MAPPING
SETEL == <<"S","E","T","E","L">>
Fuel == <<"F","u","e","l">>
Groceries == <<"G","r","o","c","e","r","i","e","s">>
Personal_Care == <<"P","e","r","s","o","n","a","l"," ","C","a","r","e">>
Dining == <<"D","i","n","i","n","g">>
Shopping == <<"S","h","o","p","p","i","n","g">>
Loan == <<"L","o","a","n">>
E_Wallet == <<"E","-","W","a","l","l","e","t">>
Payment == <<"P","a","y","m","e","n","t">>
Rebate == <<"R","e","b","a","t","e">>
Subscriptions == <<"S","u","b","s","c","r","i","p","t","i","o","n","s">>

\* maybank.py:54-74  CATEGORY_MAPPING, in definition order (a dict keeps
\* insertion order); every subcategory is None
CATEGORY_MAPPING ==
    <<[key |-> SETEL,
        category |-> Fuel, subcategory |-> None],
      [key |-> <<"9","9"," ","S","P","E","E","D","M","A","R","T">>,
        category |-> Groceries, subcategory |-> None],
      [key |-> <<"W","A","T","S","O","N">>,
        category |-> Personal_Care, subcategory |-> None],
      [key |-> <<"L","O","T","U","S","'","S">>,
        category |-> Groceries, subcategory |-> None],
      [key |-> <<"A","E","O","N"," ","S","M","K","T">>,
        category |-> Groceries, subcategory |-> None],
      [key |-> <<"A","E","O","N">>,
        category |-> Groceries, subcategory |-> None],
      [key |-> <<"M","C","D","O","N","A","L","D","S">>,
        category |-> Dining, subcategory |-> None],
      [key |-> <<"K","R","I","S","P","Y"," ","K","R","E","M","E">>,
        category |-> Dining, subcategory |-> None],
      [key |-> <<"A","U","N","T","I","E"," ","A","N","N","E">>,
        category |-> Dining, subcategory |-> None],
      [key |-> <<"S","H","O","P","E","E">>,
        category |-> Shopping, subcategory |-> None],
      [key |-> <<"S","H","O","P","E","E","-","E","C">>,
        category |-> Shopping, subcategory |-> None],
      [key |-> <<"S","P","A","Y","L","A","T","E","R">>,
        category |-> Loan, subcategory |-> None],
      [key |-> <<"T","N","G","-","E","W","A","L","L","E","T">>,
        category |-> E_Wallet, subcategory |-> None],
      [key |-> <<"B","I","G","P","A","Y">>,
        category |-> E_Wallet, subcategory |-> None],
      [key |-> <<"P","Y","M","T","@","M","A","Y","B","A","N","K","2","U",".","C","O","M">>,
        category |-> Payment, subcategory |-> None],
      [key |-> <<"C","A","S","H"," ","R","E","B","A","T","E">>,
        category |-> Rebate, subcategory |-> None],
      [key |-> <<"A","P","P","L","E",".","C","O","M","/","B","I","L","L">>,
        category |-> Subscriptions, subcategory |-> None],
      [key |-> <<"H","A","C","K","T","H","E","B","O","X">>,
        category |-> Subscriptions, subcategory |-> None],
      [key |-> <<"T","H","A","I"," ","C","H","I","C","K","E","N"," ","R","I","C","E">>,
        category |-> Dining, subcategory |-> None] >>

\* the scan that keeps going after a match: the last key that occurs wins
RECURSIVE map_category_last(_, _)
map_category_last(updesc, mapping) ==
    IF mapping = <<>> THEN [category |-> None, subcategory |-> None]
    ELSE LET e == mapping[Len(mapping)] IN
         IF Contains(e.key, updesc)
         THEN [category |-> e.category, subcategory |-> e.subcategory]
         ELSE map_category_last(updesc, SubSeq(mapping, 1, Len(mapping) - 1))

\* maybank.py:237-244  category = subcategory = None; for key, (cat, subcat)
\* in CATEGORY_MAPPING.items(): if key in updesc: take them and break
RECURSIVE map_category(_, _)
map_category(updesc, mapping) ==
    IF mapping = <<>> THEN [category |-> None, subcategory |-> None]
    ELSE LET e == Head(mapping) IN
         IF Contains(e.key, updesc)
         THEN [category |-> e.category, subcategory |-> e.subcategory]
         ELSE map_category(updesc, Tail(mapping))

\* maybank.py:236-244  the category and subcategory of a cleaned description
keyword_mapper(cleaned_desc) == map_category(upper(cleaned_desc), CATEGORY_MAPPING)

\* ------------------------------------------------ statement text patterns
\* The text of a line holds letters, digits, punctuation and blanks; the
\* blank is the only character \s matches.
IsUpperLetter(c) == \E i \in 1..Len(UpperAlphabet) : UpperAlphabet[i] = c

\* the first position from k on that holds no blank (Len(s) + 1 when none):
\* where a greedy \s+ that starts at k hands over to a pattern that cannot
\* start with a blank
RECURSIVE SkipBlanks(_, _)
SkipBlanks(s, k) ==
    IF k <= Len(s) /\ s[k] = " " THEN SkipBlanks(s, k + 1) ELSE k

\* the literal p stands at position k of s under re.IGNORECASE
LiteralAt(p, s, k) ==
    /\ k >= 1
    /\ k + Len(p) - 1 <= Len(s)
    /\ \A i \in 1..Len(p) : UpperChar(s[k + i - 1]) = UpperChar(p[i])

\* \d{n} matches at position k of s
DigitsAt(s, k, n) ==
    /\ k >= 1
    /\ k + n - 1 <= Len(s)
    /\ \A i \in k..(k + n - 1) : IsDigit(s[i])

\* re.search(p, s, re.IGNORECASE) for a literal p
SearchLiteral(p, s) == \E k \in 1..Len(s) : LiteralAt(p, s, k)

\* the smallest element of a non-empty set of positions
Least(S) == CHOOSE k \in S : \A j \in S : k <= j

\* maybank.py:152  the two titles of the document sanity check
STATEMENT_OF_CREDIT_CARD_ACCOUNT ==
    <<"S","T","A","T","E","M","E","N","T"," ","O","F"," ","C","R","E",
      "D","I","T"," ","C","A","R","D"," ","A","C","C","O","U","N","T">>
PENYATA_AKAUN_KAD_KREDIT ==
    <<"P","E","N","Y","A","T","A"," ","A","K","A","U","N"," ","K","A",
      "D"," ","K","R","E","D","I","T">>

\* maybank.py:152  the sanity check on all_text.upper(), the page text
\* joined by line breaks: neither title holds a line break, so a title is in
\* the text when it is in one line
IsMaybankStatement(text) ==
    \E i \in 1..Len(text) :
        \/ Contains(STATEMENT_OF_CREDIT_CARD_ACCOUNT, upper(text[i]))
        \/ Contains(PENYATA_AKAUN_KAD_KREDIT, upper(text[i]))

\* maybank.py:155-161  the lines of the text, right-stripped, empty ones
\* left out
RECURSIVE flatten(_)
flatten(text) ==
    IF text = <<>> THEN <<>>
    ELSE LET line == RStrip(Head(text)) IN
         IF line # <<>> THEN <<line>> \o flatten(Tail(text))
         ELSE flatten(Tail(text))

\* maybank.py:44-47  MONTHS, and MONTHS.get(abbr)
MONTHS ==
    << <<"J","A","N">>, <<"F","E","B">>, <<"M","A","R">>, <<"A","P","R">>,
       <<"M","A","Y">>, <<"J","U","N">>, <<"J","U","L">>, <<"A","U","G">>,
       <<"S","E","P">>, <<"O","C","T">>, <<"N","O","V">>, <<"D","E","C">> >>
MONTHS_get(abbr) ==
    IF \E i \in 1..Len(MONTHS) : MONTHS[i] = abbr
    THEN Some(CHOOSE i \in 1..Len(MONTHS) : MONTHS[i] = abbr)
    ELSE None

\* maybank.py:172, 185  (\d{2})\s+([A-Z]{3})\s+(\d{2}) matches from position
\* i of s; the pattern is compiled without IGNORECASE
DateTokenAt(s, i) ==
    LET b == SkipBlanks(s, i + 2)
        c == SkipBlanks(s, b + 3)
    IN /\ DigitsAt(s, i, 2)
       /\ b > i + 2
       /\ b + 2 <= Len(s)
       /\ \A j \in b..(b + 2) : IsUpperLetter(s[j])
       /\ c > b + 3
       /\ DigitsAt(s, c, 2)

\* maybank.py:172, 185  re.search of that pattern: the groups of the
\* leftmost match, or None
search_date(s) ==
    LET starts == { i \in 1..Len(s) : DateTokenAt(s, i) } IN
    IF starts = {} THEN None
    ELSE LET i == Least(starts)
             b == SkipBlanks(s, i + 2)
             c == SkipBlanks(s, b + 3)
         IN Some([day |-> SubSeq(s, i, i + 1),
                  mon_abbr |-> SubSeq(s, b, b + 2),
                  yr |-> SubSeq(s, c, c + 1)])

\* maybank.py:174-176, 187-189  the anchor a matched token gives: the month
\* of MONTHS (None for an unknown abbreviation) and the year with its century
AnchorOf(m) ==
    LET yy == DigitsValue(m.yr) IN
    [year |-> Some(yy + (IF yy < 70 THEN 2000 ELSE 1900)),
     month |-> MONTHS_get(upper(m.mon_abbr))]

NoAnchor == [year |-> None, month |-> None]
Known(a) == a.year # None /\ a.month # None

\* the look-ahead when it reads four lines after line i
RECURSIVE LookAhead_FourLines(_, _, _, _)
LookAhead_FourLines(text, i, j, acc) ==
    IF j > 4 THEN acc
    ELSE IF i + j <= Len(text) /\ search_date(text[i + j]) # None
         THEN AnchorOf(search_date(text[i + j])[1])
         ELSE LookAhead_FourLines(text, i, j + 1, acc)

\* maybank.py:170-177  for j in range(1, 4): the first of the three lines
\* after line i that holds a token sets the anchor and ends the look-ahead
RECURSIVE LookAhead(_, _, _, _)
LookAhead(text, i, j, acc) ==
    IF j > 3 THEN acc
    ELSE IF i + j <= Len(text) /\ search_date(text[i + j]) # None
         THEN AnchorOf(search_date(text[i + j])[1])
         ELSE LookAhead(text, i, j + 1, acc)

Statement_Date ==
    <<"S","t","a","t","e","m","e","n","t"," ","D","a","t","e">>

\* maybank.py:167-179  the loop over the lines that hold 'Statement Date':
\* it ends at the first such line whose look-ahead leaves year and month set
RECURSIVE AnchorAfterPhrase(_, _, _)
AnchorAfterPhrase(text, i, acc) ==
    IF i > Len(text) THEN acc
    ELSE IF SearchLiteral(Statement_Date, text[i])
         THEN LET a == LookAhead(text, i, 1, acc) IN
              IF Known(a) THEN a ELSE AnchorAfterPhrase(text, i + 1, a)
         ELSE AnchorAfterPhrase(text, i + 1, acc)

\* maybank.py:181-189  the fallback: the first token anywhere in the text
AnchorAnywhere(text, acc) ==
    LET holders == { i \in 1..Len(text) : search_date(text[i]) # None } IN
    IF Known(acc) \/ holders = {} THEN acc
    ELSE AnchorOf(search_date(text[Least(holders)])[1])

\* maybank.py:164-189  stmt_year and stmt_month after both searches
statement_anchor(text) ==
    AnchorAnywhere(text, AnchorAfterPhrase(text, 1, NoAnchor))

VISA_IKHWAN ==
    <<"V","I","S","A"," ","I","K","H","W","A","N">>
PLATINUM ==
    <<"P","L","A","T","I","N","U","M">>
GOLD ==
    <<"G","O","L","D">>

\* maybank.py:198-201  card_header_re matches from position i of s with the
\* colon at position c:
\*   VISA IKHWAN\s+(PLATINUM|GOLD).+?:\s+(?:\d{4}\s+){3}(\d{4})
\* After the tier at least one character precedes the colon; the colon is
\* followed by blanks and four groups of four digits, the first three each
\* followed by blanks.  The value is the position of the last group, 0 when
\* there is no match.
CardHeaderAt(s, i, c) ==
    LET b == SkipBlanks(s, i + Len(VISA_IKHWAN))
        e == IF LiteralAt(PLATINUM, s, b) THEN b + Len(PLATINUM)
             ELSE IF LiteralAt(GOLD, s, b) THEN b + Len(GOLD)
             ELSE 0
        g1 == SkipBlanks(s, c + 1)
        g2 == SkipBlanks(s, g1 + 4)
        g3 == SkipBlanks(s, g2 + 4)
        g4 == SkipBlanks(s, g3 + 4)
    IN IF /\ LiteralAt(VISA_IKHWAN, s, i)
          /\ b > i + Len(VISA_IKHWAN)
          /\ e # 0
          /\ c > e
          /\ c <= Len(s)
          /\ s[c] = ":"
          /\ g1 > c + 1 /\ DigitsAt(s, g1, 4)
          /\ g2 > g1 + 4 /\ DigitsAt(s, g2, 4)
          /\ g3 > g2 + 4 /\ DigitsAt(s, g3, 4)
          /\ g4 > g3 + 4 /\ DigitsAt(s, g4, 4)
       THEN g4 ELSE 0

\* maybank.py:210  card_header_re.search(line): group last4 of the match
\* (leftmost start, then the nearest colon, as .+? is lazy), or None
card_header_re(s) ==
    LET starts == { i \in 1..Len(s) :
                      /\ LiteralAt(VISA_IKHWAN, s, i)
                      /\ \E c \in i..Len(s) : CardHeaderAt(s, i, c) # 0 } IN
    IF starts = {} THEN None
    ELSE LET i == Least(starts)
             c == Least({ k \in i..Len(s) : CardHeaderAt(s, i, k) # 0 })
             g4 == CardHeaderAt(s, i, c)
         IN Some(SubSeq(s, g4, g4 + 3))

TOTAL_CREDIT_THIS_MONTH ==
    <<"T","O","T","A","L"," ","C","R","E","D","I","T"," ","T","H","I",
      "S"," ","M","O","N","T","H">>
TOTAL_DEBIT_THIS_MONTH ==
    <<"T","O","T","A","L"," ","D","E","B","I","T"," ","T","H","I","S",
      " ","M","O","N","T","H">>
SUB_TOTAL ==
    <<"S","U","B"," ","T","O","T","A","L">>
JUMLAH ==
    <<"J","U","M","L","A","H">>

\* maybank.py:206, 215  total_re.search(line)
total_re(s) ==
    \/ SearchLiteral(TOTAL_CREDIT_THIS_MONTH, s)
    \/ SearchLiteral(TOTAL_DEBIT_THIS_MONTH, s)
    \/ SearchLiteral(SUB_TOTAL, s)
    \/ SearchLiteral(JUMLAH, s)

\* \d{2}/\d{2} matches at position k of s
DayMonthAt(s, k) ==
    /\ DigitsAt(s, k, 2)
    /\ k + 4 <= Len(s)
    /\ s[k + 2] = "/"
    /\ DigitsAt(s, k + 3, 2)

\* [0-9,\.]
IsAmountChar(c) == IsDigit(c) \/ c = "," \/ c = "."

\* maybank.py:202-205, 220  row_re.match(line): the groups of the match, or
\* None.
\*   ^(\d{2}/\d{2})\s+(\d{2}/\d{2})\s+(.+?)\s+([0-9,\.]+)(CR)?$
\* The amount and the optional CR hold no blank, so they are the text after
\* the last blank of the line.  The blanks after the second date are taken
\* greedily (the description starts as late as possible) and the
\* description is lazy (it ends as early as possible, before the blanks
\* that precede the amount).
row_re(s) ==
    LET q == SkipBlanks(s, 6)
        m == SkipBlanks(s, q + 5)
        blanks == { k \in 1..Len(s) : s[k] = " " }
        a == (CHOOSE k \in blanks : \A j \in blanks : j <= k) + 1
        cr == Len(s) - a >= 2 /\ LiteralAt(<<"C", "R">>, s, Len(s) - 1)
        z == IF cr THEN Len(s) - 2 ELSE Len(s)
        r == CHOOSE k \in 1..(a - 1) :
                /\ \A j \in k..(a - 1) : s[j] = " "
                /\ k = 1 \/ s[k - 1] # " "
        starts == { k \in (q + 6)..m : k <= a - 2 }
        p == CHOOSE k \in starts : \A j \in starts : j <= k
        e == IF p > r - 1 THEN p ELSE r - 1
    IN IF /\ DayMonthAt(s, 1)
          /\ q > 6
          /\ DayMonthAt(s, q)
          /\ m > q + 5
          /\ a <= z
          /\ \A k \in a..z : IsAmountChar(s[k])
          /\ starts # {}
       THEN Some([post |-> SubSeq(s, 1, 5),
                  tran |-> SubSeq(s, q, q + 4),
                  desc |-> SubSeq(s, p, e),
                  amount |-> SubSeq(s, a, z),
                  cr |-> cr])
       ELSE None

\* re.sub(r"\s+", " ", s): every run of blanks becomes one blank
RECURSIVE CollapseBlanks(_)
CollapseBlanks(s) ==
    IF s = <<>> THEN <<>>
    ELSE IF Head(s) = " "
         THEN <<" ">> \o CollapseBlanks(LStrip(s))
         ELSE <<Head(s)>> \o CollapseBlanks(Tail(s))

\* re.sub(r"\s+[A-Z]{2}$", "", s): two capital letters at the end, with the
\* blanks before them, are removed
RemoveCountryCode(s) ==
    IF /\ Len(s) >= 3
       /\ IsUpperLetter(s[Len(s)])
       /\ IsUpperLetter(s[Len(s) - 1])
       /\ s[Len(s) - 2] = " "
    THEN RStrip(SubSeq(s, 1, Len(s) - 2))
    ELSE s

\* maybank.py:98-108  _normalise_description(desc)
_normalise_description(desc) ==
    LET raw == Strip(desc) IN
    [cleaned |-> RemoveCountryCode(CollapseBlanks(raw)), raw |-> raw]

\* the row of a match when a row with an unresolved date is withheld as well
maybank_row_DropUndated(m, year, month, card) ==
    LET nd == _normalise_description(m.desc)
        amt == _parse_amount(Strip(m.amount), m.cr)
        cat == keyword_mapper(nd.cleaned)
        post == _infer_date(m.post, year, month)
        tran == _infer_date(m.tran, year, month)
    IN IF amt = None \/ post = None \/ tran = None THEN None
       ELSE Some([statement_month |-> <<year, month>>,
                  card_last4 |-> card,
                  posting_date |-> Some([str |-> TRUE, ymd |-> post[1]]),
                  transaction_date |-> Some([str |-> TRUE, ymd |-> tran[1]]),
                  description |-> nd.cleaned,
                  description_raw |-> nd.raw,
                  amount |-> amt[1],
                  category |-> cat.category,
                  subcategory |-> cat.subcategory,
                  source |-> "maybank"])

\* maybank.py:221-256  the row built from a match of row_re under the
\* statement anchor and the active card, or None when the amount does not
\* resolve; date.isoformat() gives a string (str |-> TRUE)
maybank_row(m, year, month, card) ==
    LET IsoOrNone(d) == IF d = None THEN None
                        ELSE Some([str |-> TRUE, ymd |-> d[1]])
        nd == _normalise_description(m.desc)
        amt == _parse_amount(Strip(m.amount), m.cr)
        cat == keyword_mapper(nd.cleaned)
    IN IF amt = None THEN None
       ELSE Some([statement_month |-> <<year, month>>,
                  card_last4 |-> card,
                  posting_date |-> IsoOrNone(_infer_date(m.post, year, month)),
                  transaction_date |-> IsoOrNone(_infer_date(m.tran, year, month)),
                  description |-> nd.cleaned,
                  description_raw |-> nd.raw,
                  amount |-> amt[1],
                  category |-> cat.category,
                  subcategory |-> cat.subcategory,
                  source |-> "maybank"])

\* ------------------------------------------------------------------ state
VARIABLES
    \* a single call of apply_rules (tests/test_repo.py)
    arPc,      \* "off" | "call" | "returned" | "raised"
    arTx,      \* the transaction passed to apply_rules
    arRules,   \* the rule list passed to apply_rules
    arOut,     \* the transaction after the call
    \* the store
    stmts,         \* statements table: id -> [status, error_message]
    files,         \* id -> the rows parse_pdf_bytes returns for /srv/finance/uploads/<id>.pdf
    categories,    \* categories table: sequence of names, id = position
    rules,         \* rules table, in insertion order
    nextRuleId,    \* rules primary key sequence
    transactions,  \* transactions table: sequence of rows, id = position
    \* the task queue and the workers running queue_parse
    tasks,         \* statement ids whose queue_parse task waits for a worker
    deliveries,    \* number of queue_parse tasks sent so far
    pc,            \* worker -> position in queue_parse
    wStmt,         \* worker -> statement_id
    wRows,         \* worker -> rows
    wI,            \* worker -> index of the row being handled (1-based)
    wCat,          \* worker -> category_id resolved for the current row
    wSess,         \* worker -> state of its Session: "active" | "deactive"
    wDirty,        \* worker -> attribute changes pending in its Session
    wExc,          \* worker -> the exception that left the try block
    wLog,          \* worker -> outcome of each row handled so far in this run
    wOthers,       \* worker -> the rule pass read transactions of other statements
    ended,         \* statement id -> what the last finished run did
    limits,        \* the workers that run and the bounds of this run of the model
    \* the line scan of parse_maybank_pdf
    scPc,          \* "off" | "scan" | "done"
    lines,         \* the non-empty lines of the document, in order
    idx,           \* 1-based position of the line the loop is at
    current_card_last4,  \* None, or the last four digits of the open section
    rows,          \* the rows emitted so far
    \* the part of parse_maybank_pdf that precedes the line scan
    docText,       \* the extracted text lines of the document, as words
    stmt_year,     \* None, or the statement year
    stmt_month,    \* None, or the statement month
    \* a single call of one of the parser's helper functions
    fnPc,          \* "off" | "call" | "returned"
    fnIn,          \* the arguments
    fnOut,         \* the return value
    \* a single call of parse_pdf_bytes
    ppPc,          \* "off" | "maybank" | "plumber" | "tabula" | "returned"
    ppIn,          \* what the three extractors do on the given bytes
    ppPage,        \* 1-based position of the page pdfplumber is at
    ppRows,        \* the list `rows` of the fallback
    ppOut,         \* the return value
    ppRan          \* the extraction strategies that have run, in order

arVars == <<arPc, arTx, arRules, arOut>>
storeVars == <<stmts, files, categories, rules, nextRuleId, transactions>>
workerVars == <<tasks, deliveries, pc, wStmt, wRows, wI, wCat, wSess, wDirty,
                wExc, wLog, wOthers, ended, limits>>
pipeVars == <<storeVars, workerVars>>
scanVars == <<scPc, lines, idx, current_card_last4, rows>>
docVars == <<docText, stmt_year, stmt_month>>
fnVars == <<fnPc, fnIn, fnOut>>
ppVars == <<ppPc, ppIn, ppPage, ppRows, ppOut, ppRan>>
extVars == <<docVars, fnVars, ppVars>>
vars == <<arVars, pipeVars, scanVars, extVars>>

\* no document is being opened
DocOff ==
    /\ docText = <<>>
    /\ stmt_year = None
    /\ stmt_month = None

\* no helper function is being called
FnOff ==
    /\ fnPc = "off"
    /\ fnIn = <<>>
    /\ fnOut = None

\* parse_pdf_bytes is not being called
ParseOff ==
    /\ ppPc = "off"
    /\ ppIn = <<>>
    /\ ppPage = 0
    /\ ppRows = <<>>
    /\ ppOut = None
    /\ ppRan = <<>>

\* ------------------------------------------------- bounds of the pipeline
\* Spec, one worker: rows in one parsed file, rules ever created through
\* add_rule, queue_parse tasks ever sent (uploads and re-sent tasks)
MaxRows == 2
MaxRules == 1
MaxDeliveries == 2
\* SpecWorkers, two workers: the same three bounds
MaxRowsW == 1
MaxRulesW == 1
MaxDeliveriesW == 2

Workers == {"w1", "w2"}
StmtIds == {1, 2}

\* ------------------------------------------------------------ parsed rows
setel == <<"s","e","t","e","l">>

\* dict.get(key): None for a missing key
Get(r, k) == IF k \in DOMAIN r THEN r[k] ELSE None

\* `a or b` on values that are None or truthy
Or(a, b) == IF a # None THEN a ELSE b

\* a row of parse_maybank_pdf (maybank.py:245-256): ISO strings for the dates,
\* category from CATEGORY_MAPPING ("SETEL": ("Fuel", None)); amount in cents
RowSetel ==
    [source |-> "maybank", card_last4 |-> "7141",
     posting_date |-> Some([str |-> TRUE, ymd |-> <<2025, 7, 1>>]),
     transaction_date |-> Some([str |-> TRUE, ymd |-> <<2025, 6, 30>>]),
     description |-> SETEL, amount |-> 3040,
     category |-> Fuel, subcategory |-> None]

\* a second row of parse_maybank_pdf, whose description holds no key of
\* CATEGORY_MAPPING
RowTea ==
    [source |-> "maybank", card_last4 |-> "7141",
     posting_date |-> Some([str |-> TRUE, ymd |-> <<2025, 7, 2>>]),
     transaction_date |-> Some([str |-> TRUE, ymd |-> <<2025, 7, 1>>]),
     description |-> Tea_house, amount |-> 450,
     category |-> None, subcategory |-> None]

\* a row of the generic fallback (parser.py:61-73, 93) whose first cell
\* matched no date format (_coerce_date returned None); it carries no
\* category key
RowUndated ==
    [raw |-> "r", txn_date |-> None, description |-> Coffee_shop,
     amount |-> 450]

\* a third row of parse_maybank_pdf: the purchase of RowSetel as a line of
\* another card section, posted a day later and printed with a country code
\* that _normalise_description cut (maybank.py:107); it carries the
\* description_raw key, which the other rows leave out
RowSetelSupp ==
    [source |-> "maybank", card_last4 |-> "1234",
     posting_date |-> Some([str |-> TRUE, ymd |-> <<2025, 7, 2>>]),
     transaction_date |-> Some([str |-> TRUE, ymd |-> <<2025, 6, 30>>]),
     description |-> SETEL, description_raw |-> SETEL \o <<" ", "M", "Y">>,
     amount |-> 3040,
     category |-> Fuel, subcategory |-> None]

MaybankRows == {RowSetel, RowTea, RowSetelSupp}
FallbackRows == {RowUndated}

\* parser.py:40-96  what parse_pdf_bytes may return for one file of at most
\* n rows: the rows of parse_maybank_pdf when it found any, otherwise the
\* rows (possibly none) of the generic fallback
Files(n) ==
    UNION { [1..k -> MaybankRows] : k \in 1..n }
        \cup UNION { [1..k -> FallbackRows] : k \in 0..n }

\* ------------------------------------------------------------- the store
\* select(Category).where(Category.name == name): the id, or None
CategoryByName(cats, name) ==
    IF \E i \in 1..Len(cats) : cats[i] = name
    THEN Some(CHOOSE i \in 1..Len(cats) : cats[i] = name)
    ELSE None

\* the guard as it would be with the posting date among its columns: rows
\* that differ in posting date never conflict
UniqueViolation_WithPostDate(tx, txs) ==
    \E i \in 1..Len(txs) :
        /\ txs[i].statement_id = tx.statement_id
        /\ tx.txn_date # None
        /\ txs[i].txn_date = tx.txn_date
        /\ txs[i].post_date = tx.post_date
        /\ txs[i].description = tx.description
        /\ txs[i].amount = tx.amount

\* 0001_init.py:56-61  unique index uq_txn_upsert_guard on (statement_id,
\* txn_date, description, amount).  A unique index treats NULLs as distinct:
\* a row whose txn_date is NULL conflicts with no row.
UniqueViolation(tx, txs) ==
    \E i \in 1..Len(txs) :
        /\ txs[i].statement_id = tx.statement_id
        /\ tx.txn_date # None
        /\ txs[i].txn_date = tx.txn_date
        /\ txs[i].description = tx.description
        /\ txs[i].amount = tx.amount

\* worker.py:33-49  normalise a date cell: an ISO string goes through
\* datetime.fromisoformat(...).date(), anything else is passed on as it is
NormaliseDate(cell) ==
    IF cell = None THEN None
    ELSE IF cell[1].str THEN Some(cell[1].ymd) ELSE Some(cell[1].ymd)

\* worker.py:33-73  the Transaction built from row r
BuildTransaction(statement_id, r, category_id, txs) ==
    [id |-> Len(txs) + 1,
     statement_id |-> statement_id,
     txn_date |-> NormaliseDate(Or(Get(r, "transaction_date"), Get(r, "txn_date"))),
     post_date |-> NormaliseDate(Get(r, "posting_date")),
     description |-> Strip(OrEmpty(Get(r, "description"))),
     amount |-> Get(r, "amount"),
     category_id |-> category_id,
     subcategory |-> Get(r, "subcategory"),
     raw_row_json |-> r]

\* the Session after the `except Exception:` of the per-row try, without the
\* db.rollback(): it stays in the state the failed flush left it in
AfterRowFailure_NoRollback == "deactive"

\* worker.py:76-77  except Exception: db.rollback()
AfterRowFailure == "active"

\* repo.py:20-25  reapply_all up to its commit: apply_rules on every
\* transaction in turn; the first call that raises ends the loop and leaves
\* the changes made so far pending in the Session
RECURSIVE reapply_loop(_, _, _)
reapply_loop(rs, txs, i) ==
    IF i > Len(txs) THEN [raised |-> FALSE, txs |-> txs]
    ELSE LET res == apply_rules(txs[i], rs) IN
         IF res.raised THEN [raised |-> TRUE, txs |-> txs]
         ELSE reapply_loop(rs, [txs EXCEPT ![i] = res.tx], i + 1)

reapply_all(rs, txs) == reapply_loop(rs, txs, 1)

\* the attribute changes a Session holds after the loop: the transactions
\* whose classification differs from the stored one
Changes(old, new) ==
    { [id |-> i, category_id |-> new[i].category_id,
       subcategory |-> new[i].subcategory] :
        i \in { j \in 1..Len(old) :
                  \/ old[j].category_id # new[j].category_id
                  \/ old[j].subcategory # new[j].subcategory } }

\* db.commit() flushing pending attribute changes as UPDATEs by primary key
Flush(dirty, txs) ==
    [i \in 1..Len(txs) |->
        IF \E d \in dirty : d.id = i
        THEN LET d == CHOOSE d \in dirty : d.id = i IN
             [txs[i] EXCEPT !.category_id = d.category_id,
                            !.subcategory = d.subcategory]
        ELSE txs[i]]

\* the classification of every stored transaction, by id
Assignments(txs) ==
    [i \in 1..Len(txs) |-> <<txs[i].category_id, txs[i].subcategory>>]

\* ------------------------------------------ parse_maybank_pdf: line scan
\* lines in one document
MaxLines == 4

\* A line is described by what the three compiled patterns find in it
\* (maybank.py:198-206): card is the last4 group of card_header_re.search,
\* or None; total is whether total_re.search matches; row is None when
\* row_re.match fails and otherwise tells whether _parse_amount resolves the
\* amount group.  One line can match more than one pattern: a row whose
\* description holds JUMLAH, a row whose text holds a card header.
LineKinds ==
    { [card |-> Some("7141"), total |-> FALSE, row |-> None],
      [card |-> Some("1234"), total |-> FALSE, row |-> None],
      [card |-> None, total |-> TRUE, row |-> None],
      [card |-> None, total |-> FALSE, row |-> Some([amount_ok |-> TRUE])],
      [card |-> None, total |-> FALSE, row |-> Some([amount_ok |-> FALSE])],
      [card |-> None, total |-> FALSE, row |-> None],
      [card |-> None, total |-> TRUE, row |-> Some([amount_ok |-> TRUE])],
      [card |-> Some("7141"), total |-> FALSE, row |-> Some([amount_ok |-> TRUE])] }

Documents == UNION { [1..n -> LineKinds] : n \in 0..MaxLines }

\* no scan is in progress
ScanOff ==
    /\ scPc = "off"
    /\ lines = <<>>
    /\ idx = 0
    /\ current_card_last4 = None
    /\ rows = <<>>

\* the active card after a line, with the totals branch left out: a totals
\* line no longer closes the section
NextCard_NoClose(line, current) ==
    IF line.card # None THEN line.card ELSE current

\* maybank.py:209-217  the active card after a line: a card header sets it,
\* otherwise a totals line clears it, otherwise it stays
NextCard(line, current) ==
    IF line.card # None THEN line.card
    ELSE IF line.total THEN None
    ELSE current

\* maybank.py:209-235  the line reaches rows.append: it is neither a card
\* header nor a totals line (both `continue`), a card is active, row_re
\* matches and the amount resolves
Emits(line, current) ==
    /\ line.card = None
    /\ ~line.total
    /\ current # None
    /\ line.row # None
    /\ line.row[1].amount_ok

\* ------------------------------------------------------------ the pipeline
\* no call of apply_rules on its own is in progress
RulesOff ==
    /\ arPc = "off"
    /\ arTx = [description |-> <<>>, category_id |-> None, subcategory |-> None]
    /\ arRules = <<>>
    /\ arOut = arTx

\* the worker's locals outside a run
WorkerIdle(w) ==
    /\ pc[w] = "idle"
    /\ wStmt[w] = 0
    /\ wRows[w] = <<>>
    /\ wI[w] = 0
    /\ wCat[w] = None
    /\ wSess[w] = "closed"
    /\ wDirty[w] = {}
    /\ wExc[w] = None
    /\ wLog[w] = <<>>
    /\ wOthers[w] = FALSE

\* the empty database after the migrations, no task queued, workers waiting
InitPipe(lim) ==
    /\ limits = lim
    /\ stmts = [s \in StmtIds |-> [status |-> "absent", error_message |-> None]]
    /\ files = [s \in StmtIds |-> <<>>]
    /\ categories = <<>>
    /\ rules = <<>>
    /\ nextRuleId = 1
    /\ transactions = <<>>
    /\ tasks = {}
    /\ deliveries = 0
    /\ pc = [w \in Workers |-> "idle"]
    /\ wStmt = [w \in Workers |-> 0]
    /\ wRows = [w \in Workers |-> <<>>]
    /\ wI = [w \in Workers |-> 0]
    /\ wCat = [w \in Workers |-> None]
    /\ wSess = [w \in Workers |-> "closed"]
    /\ wDirty = [w \in Workers |-> {}]
    /\ wExc = [w \in Workers |-> None]
    /\ wLog = [w \in Workers |-> <<>>]
    /\ wOthers = [w \in Workers |-> FALSE]
    /\ ended = [s \in StmtIds |-> None]

\* locals of a worker back to their values outside a run (finally: db.close())
Close(w) ==
    /\ pc' = [pc EXCEPT ![w] = "idle"]
    /\ wStmt' = [wStmt EXCEPT ![w] = 0]
    /\ wRows' = [wRows EXCEPT ![w] = <<>>]
    /\ wI' = [wI EXCEPT ![w] = 0]
    /\ wCat' = [wCat EXCEPT ![w] = None]
    /\ wSess' = [wSess EXCEPT ![w] = "closed"]
    /\ wDirty' = [wDirty EXCEPT ![w] = {}]
    /\ wExc' = [wExc EXCEPT ![w] = None]
    /\ wLog' = [wLog EXCEPT ![w] = <<>>]
    /\ wOthers' = [wOthers EXCEPT ![w] = FALSE]

\* main.py:84-113  upload_pdf: a Statement with status processing is
\* committed, the file is written and queue_parse is queued for it
Upload(f) ==
    /\ deliveries < limits.deliveries
    /\ \E s \in StmtIds :
        /\ stmts[s].status = "absent"
        /\ \A t \in StmtIds : t < s => stmts[t].status # "absent"
        /\ stmts' = [stmts EXCEPT ![s] = [status |-> "processing",
                                          error_message |-> None]]
        /\ files' = [files EXCEPT ![s] = f]
        /\ tasks' = tasks \cup {s}
    /\ deliveries' = deliveries + 1
    /\ UNCHANGED <<categories, rules, nextRuleId, transactions, pc, wStmt, wRows,
                   wI, wCat, wSess, wDirty, wExc, wLog, wOthers, ended, limits, arVars, scanVars, extVars>>

\* worker.py:13-14  the queue_parse task is sent again for a statement whose
\* earlier run has ended (the only way to re-trigger ingestion)
Redeliver(s) ==
    /\ deliveries < limits.deliveries
    /\ ended[s] # None
    /\ s \notin tasks
    /\ \A w \in Workers : wStmt[w] # s
    /\ tasks' = tasks \cup {s}
    /\ deliveries' = deliveries + 1
    /\ UNCHANGED <<storeVars, pc, wStmt, wRows, wI, wCat, wSess, wDirty, wExc,
                   wLog, wOthers, ended, limits, arVars, scanVars, extVars>>

\* worker.py:15-22  a worker takes the task: Session opened, db.get of the
\* statement (return if there is none), the file read (which may raise
\* OSError) and parsed
Begin(w, s) ==
    /\ pc[w] = "idle"
    /\ s \in tasks
    /\ w \in limits.workers
    /\ \A v \in Workers : wStmt[v] # s
    /\ w = "w2" => pc["w1"] # "idle"
    /\ tasks' = tasks \ {s}
    /\ IF stmts[s].status = "absent"
       THEN UNCHANGED <<pc, wStmt, wRows, wI, wSess, wExc>>
       ELSE /\ wStmt' = [wStmt EXCEPT ![w] = s]
            /\ wSess' = [wSess EXCEPT ![w] = "active"]
            /\ \E readable \in BOOLEAN :
                IF readable
                THEN /\ wRows' = [wRows EXCEPT ![w] = files[s]]
                     /\ wI' = [wI EXCEPT ![w] = 1]
                     /\ pc' = [pc EXCEPT ![w] =
                                 IF files[s] = <<>> THEN "reapply" ELSE "row"]
                     /\ UNCHANGED wExc
                ELSE /\ wExc' = [wExc EXCEPT ![w] = Some("OSError")]
                     /\ pc' = [pc EXCEPT ![w] = "except"]
                     /\ UNCHANGED <<wRows, wI>>
    /\ UNCHANGED <<storeVars, deliveries, wCat, wDirty, wLog, wOthers, ended, limits, arVars, scanVars, extVars>>

\* worker.py:51-56  the row names a category: look it up by name
LookupCategory(w) ==
    /\ pc[w] = "row"
    /\ Get(wRows[w][wI[w]], "category") # None
    /\ IF wSess[w] = "deactive"
       THEN \* the select raises PendingRollbackError, outside the per-row try
            /\ wExc' = [wExc EXCEPT ![w] = Some("PendingRollbackError")]
            /\ pc' = [pc EXCEPT ![w] = "except"]
            /\ UNCHANGED wCat
       ELSE LET cat == CategoryByName(categories, Get(wRows[w][wI[w]], "category")) IN
            /\ wCat' = [wCat EXCEPT ![w] = cat]
            /\ pc' = [pc EXCEPT ![w] = IF cat = None THEN "create" ELSE "persist"]
            /\ UNCHANGED wExc
    /\ UNCHANGED <<storeVars, tasks, deliveries, wStmt, wRows, wI, wSess, wDirty,
                   wLog, wOthers, ended, limits, arVars, scanVars, extVars>>

\* worker.py:57-62  the look-up found nothing: db.add(Category(name));
\* db.commit().  categories.name is unique (models.py:19): when the name has
\* been committed meanwhile the INSERT raises IntegrityError, the flush
\* leaves the Session deactive and the exception leaves the try block
CreateCategory(w) ==
    /\ pc[w] = "create"
    /\ LET name == Get(wRows[w][wI[w]], "category") IN
       IF CategoryByName(categories, name) # None
       THEN /\ wSess' = [wSess EXCEPT ![w] = "deactive"]
            /\ wExc' = [wExc EXCEPT ![w] = Some("IntegrityError")]
            /\ pc' = [pc EXCEPT ![w] = "except"]
            /\ UNCHANGED <<categories, wCat>>
       ELSE /\ categories' = Append(categories, name)
            /\ wCat' = [wCat EXCEPT ![w] = Some(Len(categories) + 1)]
            /\ pc' = [pc EXCEPT ![w] = "persist"]
            /\ UNCHANGED <<wSess, wExc>>
    /\ UNCHANGED <<stmts, files, rules, nextRuleId, transactions, tasks,
                   deliveries, wStmt, wRows, wI, wDirty, wLog, wOthers, ended, limits, arVars, scanVars, extVars>>

\* worker.py:63-77  the Transaction is built and committed on its own; any
\* exception of the commit (the unique index, a Session that is deactive) is
\* caught and followed by db.rollback(); then the next row
PersistRow(w) ==
    /\ \/ pc[w] = "persist"
       \/ pc[w] = "row" /\ Get(wRows[w][wI[w]], "category") = None
    /\ LET r == wRows[w][wI[w]]
           category_id == IF pc[w] = "persist" THEN wCat[w] ELSE None
           tx == BuildTransaction(wStmt[w], r, category_id, transactions)
           outcome == IF wSess[w] = "deactive" THEN "error"
                      ELSE IF UniqueViolation(tx, transactions) THEN "duplicate"
                      ELSE "inserted"
       IN /\ transactions' = IF outcome = "inserted"
                             THEN Append(transactions, tx) ELSE transactions
          /\ wSess' = [wSess EXCEPT ![w] =
                         IF outcome = "inserted" THEN "active" ELSE AfterRowFailure]
          /\ wLog' = [wLog EXCEPT ![w] = Append(@, outcome)]
    /\ wI' = [wI EXCEPT ![w] = @ + 1]
    /\ wCat' = [wCat EXCEPT ![w] = None]
    /\ pc' = [pc EXCEPT ![w] = IF wI[w] + 1 > Len(wRows[w]) THEN "reapply" ELSE "row"]
    /\ UNCHANGED <<stmts, files, categories, rules, nextRuleId, tasks, deliveries,
                   wStmt, wRows, wDirty, wExc, wOthers, ended, limits, arVars, scanVars, extVars>>

\* worker.py:78-80 with repo.py:20-25  the rule pass: reapply_all(db) loads
\* every rule and every transaction, applies the rules and commits
ReapplyAll(w) ==
    /\ pc[w] = "reapply"
    /\ IF wSess[w] = "deactive"
       THEN /\ wExc' = [wExc EXCEPT ![w] = Some("PendingRollbackError")]
            /\ pc' = [pc EXCEPT ![w] = "except"]
            /\ UNCHANGED <<transactions, wDirty, wOthers>>
       ELSE LET res == reapply_all(rules, transactions) IN
            /\ wOthers' = [wOthers EXCEPT ![w] =
                             \E i \in 1..Len(transactions) :
                                 transactions[i].statement_id # wStmt[w]]
            /\ IF res.raised
               THEN /\ wDirty' = [wDirty EXCEPT ![w] = Changes(transactions, res.txs)]
                    /\ wExc' = [wExc EXCEPT ![w] = Some("NameError")]
                    /\ pc' = [pc EXCEPT ![w] = "except"]
                    /\ UNCHANGED transactions
               ELSE /\ transactions' = res.txs
                    /\ pc' = [pc EXCEPT ![w] = "mark"]
                    /\ UNCHANGED <<wDirty, wExc>>
    /\ UNCHANGED <<stmts, files, categories, rules, nextRuleId, tasks, deliveries,
                   wStmt, wRows, wI, wCat, wSess, wLog, ended, limits, arVars, scanVars, extVars>>

\* worker.py:81-82, 87-88  stmt.status = "processed"; stmt.error_message =
\* None; commit; the Session is closed
MarkProcessed(w) ==
    /\ pc[w] = "mark"
    /\ stmts' = [stmts EXCEPT ![wStmt[w]] = [status |-> "processed",
                                             error_message |-> None]]
    /\ ended' = [ended EXCEPT ![wStmt[w]] =
                    Some([exc |-> None, crashed |-> FALSE, log |-> wLog[w],
                          others |-> wOthers[w]])]
    /\ Close(w)
    /\ UNCHANGED <<files, categories, rules, nextRuleId, transactions, tasks,
                   deliveries, limits, arVars, scanVars, extVars>>

\* the handler as it would be if it undid the run: the statement's
\* transactions are deleted before the failed status is committed
HandleException_UndoRun(w) ==
    /\ pc[w] = "except"
    /\ stmts' = [stmts EXCEPT ![wStmt[w]] = [status |-> "failed",
                                             error_message |-> wExc[w]]]
    /\ transactions' = SelectSeq(transactions,
                            LAMBDA t : t.statement_id # wStmt[w])
    /\ ended' = [ended EXCEPT ![wStmt[w]] =
                    Some([exc |-> wExc[w], crashed |-> FALSE,
                          log |-> wLog[w], others |-> wOthers[w]])]
    /\ Close(w)
    /\ UNCHANGED <<files, categories, rules, nextRuleId, tasks, deliveries,
                   limits, arVars, scanVars, extVars>>

\* worker.py:83-88  except Exception as e: stmt.status = "failed";
\* stmt.error_message = str(e); db.add(stmt); db.commit().  The commit also
\* flushes what the Session still holds.  On a Session that a failed flush
\* left deactive the commit raises PendingRollbackError: nothing is written,
\* the exception leaves queue_parse and the statement keeps its status.
HandleException(w) ==
    /\ pc[w] = "except"
    /\ IF wSess[w] = "deactive"
       THEN /\ UNCHANGED <<stmts, transactions>>
            /\ ended' = [ended EXCEPT ![wStmt[w]] =
                            Some([exc |-> wExc[w], crashed |-> TRUE,
                                  log |-> wLog[w], others |-> wOthers[w]])]
       ELSE /\ stmts' = [stmts EXCEPT ![wStmt[w]] = [status |-> "failed",
                                                     error_message |-> wExc[w]]]
            /\ transactions' = Flush(wDirty[w], transactions)
            /\ ended' = [ended EXCEPT ![wStmt[w]] =
                            Some([exc |-> wExc[w], crashed |-> FALSE,
                                  log |-> wLog[w], others |-> wOthers[w]])]
    /\ Close(w)
    /\ UNCHANGED <<files, categories, rules, nextRuleId, tasks, deliveries,
                   limits, arVars, scanVars, extVars>>

\* what an operator may post to /api/rules
RulePayloads ==
    { [keyword |-> <<" ">> \o setel, category |-> Fuel, priority |-> 10] }

\* main.py:211-237  add_rule: the category is looked up by name and created
\* when missing; the rule is stored active
AddRule(p) ==
    /\ nextRuleId <= limits.rules
    /\ Strip(p.keyword) # <<>>
    /\ LET found == CategoryByName(categories, Strip(p.category))
           category_id == IF found # None THEN found
                          ELSE Some(Len(categories) + 1)
       IN /\ categories' = IF found # None THEN categories
                           ELSE Append(categories, Strip(p.category))
          /\ rules' = Append(rules,
                 [id |-> nextRuleId, pattern |-> Strip(p.keyword),
                  priority |-> p.priority, category_id |-> category_id,
                  subcategory |-> None, status |-> "active"])
    /\ nextRuleId' = nextRuleId + 1
    /\ UNCHANGED <<stmts, files, transactions, tasks, deliveries, pc, wStmt,
                   wRows, wI, wCat, wSess, wDirty, wExc, wLog, wOthers, ended,
                   limits, arVars, scanVars, extVars>>

\* main.py:255-266  reapply_rules: reapply_all(db) on the request's own
\* Session; an exception ends the request and the Session is closed
\* without a commit
ReapplyRules ==
    /\ LET res == reapply_all(rules, transactions) IN
        transactions' = IF res.raised THEN transactions ELSE res.txs
    /\ UNCHANGED <<stmts, files, categories, rules, nextRuleId, tasks,
                   deliveries, pc, wStmt, wRows, wI, wCat, wSess, wDirty, wExc,
                   wLog, wOthers, ended, limits, arVars, scanVars, extVars>>

\* one worker runs queue_parse
Init ==
    /\ InitPipe([workers |-> {"w1"}, rows |-> MaxRows, rules |-> MaxRules,
                 deliveries |-> MaxDeliveries])
    /\ RulesOff
    /\ ScanOff
    /\ DocOff /\ FnOff /\ ParseOff

\* two workers run queue_parse side by side
InitWorkers ==
    /\ InitPipe([workers |-> Workers, rows |-> MaxRowsW, rules |-> MaxRulesW,
                 deliveries |-> MaxDeliveriesW])
    /\ RulesOff
    /\ ScanOff
    /\ DocOff /\ FnOff /\ ParseOff

Next ==
    \/ \E f \in Files(limits.rows) : Upload(f)
    \/ \E s \in StmtIds : Redeliver(s)
    \/ \E w \in Workers, s \in StmtIds : Begin(w, s)
    \/ \E w \in Workers : LookupCategory(w)
    \/ \E w \in Workers : CreateCategory(w)
    \/ \E w \in Workers : PersistRow(w)
    \/ \E w \in Workers : ReapplyAll(w)
    \/ \E w \in Workers : MarkProcessed(w)
    \/ \E w \in Workers : HandleException(w)
    \/ \E p \in RulePayloads : AddRule(p)
    \/ ReapplyRules

Spec == Init /\ [][Next]_vars

SpecWorkers == InitWorkers /\ [][Next]_vars

\* ------------------------------------------------- apply_rules on its own
\* tests/test_repo.py:3-10  DummyRule; the category a rule assigns is fixed
\* by its id as in the test (id 1 -> 3, id 2 -> 1, id 3 -> 2)
RuleCategory(id) == Some(((id + 1) % 3) + 1)

RuleUniverse ==
    { [id |-> i, pattern |-> p, priority |-> pr, category_id |-> RuleCategory(i),
       subcategory |-> None, status |-> st] :
        i \in 1..MaxRuleList, p \in {coffee, TEA}, pr \in {1, 2},
        st \in {"active", "inactive"} }

\* rule lists in every order, ids distinct (id is the primary key)
RuleLists ==
    UNION { { l \in [1..n -> RuleUniverse] :
                \A i, j \in 1..n : i # j => l[i].id # l[j].id } :
            n \in 0..MaxRuleList }

\* tests/test_repo.py:12-16  DummyTransaction, with or without a category
\* already assigned at ingestion
TxUniverse ==
    { [description |-> d, category_id |-> c, subcategory |-> None] :
        d \in {Coffee_shop, Tea_house}, c \in {None, Some(9)} }

InitRules ==
    /\ arPc = "call"
    /\ arTx \in TxUniverse
    /\ arRules \in RuleLists
    /\ arOut = arTx
    /\ InitPipe([workers |-> {}, rows |-> 0, rules |-> 0, deliveries |-> 0])
    /\ ScanOff
    /\ DocOff /\ FnOff /\ ParseOff

\* one call of apply_rules(None, tx, rules)
ApplyRules ==
    /\ arPc = "call"
    /\ LET res == apply_rules(arTx, arRules) IN
        /\ arOut' = res.tx
        /\ arPc' = IF res.raised THEN "raised" ELSE "returned"
    /\ UNCHANGED <<arTx, arRules, pipeVars, scanVars, extVars>>

NextRules == ApplyRules

SpecRules == InitRules /\ [][NextRules]_vars

\* ------------------------------------------------ the line scan on its own
\* maybank.py:196  the state at the start of the scan of a document that
\* passed the format check and has a statement date
InitScan ==
    /\ scPc = "scan"
    /\ lines \in Documents
    /\ idx = 1
    /\ current_card_last4 = None
    /\ rows = <<>>
    /\ InitPipe([workers |-> {}, rows |-> 0, rules |-> 0, deliveries |-> 0])
    /\ RulesOff
    /\ DocOff /\ FnOff /\ ParseOff

\* maybank.py:208-257  one iteration of `for idx, line in enumerate(lines)`
ScanLine ==
    /\ scPc = "scan"
    /\ idx <= Len(lines)
    /\ LET line == lines[idx] IN
        /\ current_card_last4' = NextCard(line, current_card_last4)
        /\ rows' = IF Emits(line, current_card_last4)
                   THEN Append(rows, [line |-> idx,
                                      card_last4 |-> current_card_last4[1],
                                      source |-> "maybank"])
                   ELSE rows
    /\ idx' = idx + 1
    /\ UNCHANGED <<scPc, lines, arVars, pipeVars, extVars>>

\* maybank.py:258  return rows
ScanReturn ==
    /\ scPc = "scan"
    /\ idx > Len(lines)
    /\ scPc' = "done"
    /\ UNCHANGED <<lines, idx, current_card_last4, rows, arVars, pipeVars, extVars>>

NextScan == ScanLine \/ ScanReturn

SpecScan == InitScan /\ [][NextScan]_vars

\* ------------------------------------------------ _infer_date on its own
\* every other group of variables at rest
OthersOffForHelpers ==
    /\ InitPipe([workers |-> {}, rows |-> 0, rules |-> 0, deliveries |-> 0])
    /\ RulesOff
    /\ ScanOff
    /\ DocOff
    /\ ParseOff

\* maybank.py:202-203, 222-223  the day/month tokens the row pattern captures
\* (\d{2}/\d{2}): days around the month ends, every month number and the two
\* that no calendar has
DateTokens ==
    { TwoDigits(d) \o <<"/">> \o TwoDigits(m) :
        d \in {0, 1, 18, 28, 29, 30, 31, 32}, m \in 0..13 }

\* maybank.py:176-177  the anchors the statement date can give: a month of
\* MONTHS and a year 1970..2069; here a leap year and the year after it
Anchors == { [year |-> y, month |-> m] : y \in {2024, 2025}, m \in 1..12 }

InitDate ==
    /\ fnPc = "call"
    /\ fnIn \in { [fn |-> "_infer_date", day_month |-> t,
                   stmt_year |-> a.year, stmt_month |-> a.month] :
                    t \in DateTokens, a \in Anchors }
    /\ fnOut = None
    /\ OthersOffForHelpers

\* maybank.py:228-229  _infer_date(post, stmt_year, stmt_month)
CallInferDate ==
    /\ fnPc = "call"
    /\ fnIn.fn = "_infer_date"
    /\ fnOut' = _infer_date(fnIn.day_month, fnIn.stmt_year, fnIn.stmt_month)
    /\ fnPc' = "returned"
    /\ UNCHANGED <<fnIn, arVars, pipeVars, scanVars, docVars, ppVars>>

NextDate == CallInferDate

SpecDate == InitDate /\ [][NextDate]_vars

\* ---------------------------------------------- _parse_amount on its own
\* characters in one amount token
MaxTokenLen == 4

\* the characters of amount tokens: digits, the separators, and the three
\* credit notations (minus, parentheses, CR)
AmountAlphabet == {"5", "0", ".", ",", "-", "(", ")", "C", "R"}

T_30_40 == <<"3","0",".","4","0">>
T_9_52CR == <<"9",".","5","2","C","R">>
T_3_198_71CR == <<"3",",","1","9","8",".","7","1","C","R">>
T_9_52 == <<"9",".","5","2">>

AmountTokens ==
    UNION { [1..n -> AmountAlphabet] : n \in 0..MaxTokenLen }
        \cup {T_30_40, T_9_52CR, T_3_198_71CR, T_9_52}

InitAmount ==
    /\ fnPc = "call"
    /\ fnIn \in { [fn |-> "_parse_amount", amount_str |-> t, is_credit |-> c] :
                    t \in AmountTokens, c \in BOOLEAN }
    /\ fnOut = None
    /\ OthersOffForHelpers

\* maybank.py:233  _parse_amount(amt_str, cr_flag)
CallParseAmount ==
    /\ fnPc = "call"
    /\ fnIn.fn = "_parse_amount"
    /\ fnOut' = _parse_amount(fnIn.amount_str, fnIn.is_credit)
    /\ fnPc' = "returned"
    /\ UNCHANGED <<fnIn, arVars, pipeVars, scanVars, docVars, ppVars>>

NextAmount == CallParseAmount

SpecAmount == InitAmount /\ [][NextAmount]_vars

\* ------------------------------------------- the keyword mapper on its own
\* pieces in one description
MaxDescWords == 2

\* merchant texts as they appear in descriptions
D_WATSONS == <<"W","A","T","S","O","N","'","S">>
D_LOTUSS == <<"L","O","T","U","S","'","S">>
D_CASH_REBATE == <<"C","A","S","H"," ","R","E","B","A","T","E">>
D_PYMT == <<"P","Y","M","T","@","M","A","Y","B","A","N","K","2","U",".","C","O","M">>
D_AEON == <<"A","E","O","N">>
D_AEON_SMKT == <<"A","E","O","N"," ","S","M","K","T">>
D_Shopee_ec == <<"S","h","o","p","e","e","-","e","c">>
D_MUTIARA_JOHOR == <<"M","U","T","I","A","R","A"," ","J","O","H","O","R">>
D_SPEEDMART_99 == <<"9","9"," ","S","P","E","E","D","M","A","R","T">>
D_Thai_chicken_rice == <<"T","h","a","i"," ","c","h","i","c","k","e","n"," ","r","i","c","e">>
D_KEDAI == <<"K","E","D","A","I">>

DescPieces ==
    {SETEL, D_WATSONS, D_LOTUSS, D_CASH_REBATE, D_PYMT, D_AEON, D_AEON_SMKT, D_Shopee_ec, D_MUTIARA_JOHOR, D_SPEEDMART_99, D_Thai_chicken_rice, D_KEDAI}

\* the pieces joined by single blanks, as _normalise_description leaves them
RECURSIVE JoinPieces(_)
JoinPieces(ps) ==
    IF ps = <<>> THEN <<>>
    ELSE IF Len(ps) = 1 THEN ps[1]
    ELSE ps[1] \o <<" ">> \o JoinPieces(Tail(ps))

Descriptions ==
    { JoinPieces(ps) : ps \in UNION { [1..n -> DescPieces] : n \in 0..MaxDescWords } }

InitMapper ==
    /\ fnPc = "call"
    /\ fnIn \in { [fn |-> "keyword_mapper", cleaned_desc |-> d] : d \in Descriptions }
    /\ fnOut = None
    /\ OthersOffForHelpers

\* maybank.py:236-244  the mapping step of one row
CallKeywordMapper ==
    /\ fnPc = "call"
    /\ fnIn.fn = "keyword_mapper"
    /\ fnOut' = keyword_mapper(fnIn.cleaned_desc)
    /\ fnPc' = "returned"
    /\ UNCHANGED <<fnIn, arVars, pipeVars, scanVars, docVars, ppVars>>

NextMapper == CallKeywordMapper

SpecMapper == InitMapper /\ [][NextMapper]_vars

\* ---------------------------------------------- parse_pdf_bytes on its own
\* pages pdfplumber finds in one file
MaxPages == 2

\* a usable row of the pdfplumber table strategy (parser.py:61-73) and one of
\* the tabula strategy (parser.py:86-93); raw is the table row it came from
RowPlumber ==
    [raw |-> "plumber", txn_date |-> None, description |-> Coffee_shop,
     amount |-> 450]
RowTabula ==
    [raw |-> "tabula", txn_date |-> None, description |-> Tea_house,
     amount |-> 450]

\* what the three extractors do on the given bytes.  maybank: the exception
\* or the rows of parse_maybank_pdf.  pages: for each page in turn, the
\* usable rows of its tables, or the exception raised while it is read
\* (pdfplumber.open failing is an exception on the first page).  tabula: the
\* usable rows it appends, and whether it raises after them.
Raise == [raises |-> TRUE, rows |-> <<>>]
Return(r) == [raises |-> FALSE, rows |-> r]
ParseInputs ==
    { [maybank |-> m, pages |-> pg, tabula |-> t] :
        m \in {Raise} \cup { Return(r) : r \in {<<>>, <<RowSetel>>, <<RowSetel, RowTea>>} },
        pg \in UNION { [1..n -> {Raise, Return(<<>>), Return(<<RowPlumber>>)}] :
                          n \in 0..MaxPages },
        t \in { [rows |-> r, raises |-> e] :
                    r \in {<<>>, <<RowTabula>>}, e \in BOOLEAN } }

\* the position after an exception of parse_maybank_pdf, were it not caught
AfterMaybankRaise_Propagates == "raised"

\* parser.py:46-48  except Exception: pass -- on to the generic fallback
AfterMaybankRaise == "plumber"

InitParse ==
    /\ ppPc = "maybank"
    /\ ppIn \in ParseInputs
    /\ ppPage = 0
    /\ ppRows = <<>>
    /\ ppOut = None
    /\ ppRan = <<>>
    /\ InitPipe([workers |-> {}, rows |-> 0, rules |-> 0, deliveries |-> 0])
    /\ RulesOff
    /\ ScanOff
    /\ DocOff
    /\ FnOff

\* parser.py:40-50  the specialized parser runs first; its rows are returned
\* when there are any; rows = [] starts the fallback
TryMaybank ==
    /\ ppPc = "maybank"
    /\ IF ppIn.maybank.raises
       THEN /\ ppPc' = AfterMaybankRaise
            /\ ppRan' = <<"maybank", "plumber">>
            /\ UNCHANGED ppOut
       ELSE IF ppIn.maybank.rows # <<>>
            THEN /\ ppPc' = "returned"
                 /\ ppOut' = Some(ppIn.maybank.rows)
                 /\ ppRan' = <<"maybank">>
            ELSE /\ ppPc' = "plumber"
                 /\ ppRan' = <<"maybank", "plumber">>
                 /\ UNCHANGED ppOut
    /\ ppPage' = 1
    /\ ppRows' = <<>>
    /\ UNCHANGED <<ppIn, arVars, pipeVars, scanVars, docVars, fnVars>>

\* parser.py:52-73, 76-77  one page of the pdfplumber strategy: its usable
\* rows are appended to rows; an exception leaves the try block with rows as
\* it is and execution goes on to tabula
PlumberPage ==
    /\ ppPc = "plumber"
    /\ ppPage <= Len(ppIn.pages)
    /\ IF ppIn.pages[ppPage].raises
       THEN /\ ppPc' = "tabula"
            /\ ppRan' = Append(ppRan, "tabula")
            /\ UNCHANGED <<ppPage, ppRows>>
       ELSE /\ ppRows' = ppRows \o ppIn.pages[ppPage].rows
            /\ ppPage' = ppPage + 1
            /\ UNCHANGED <<ppPc, ppRan>>
    /\ UNCHANGED <<ppIn, ppOut, arVars, pipeVars, scanVars, docVars, fnVars>>

\* parser.py:74-75  after the last page: if rows: return rows
PlumberEnd ==
    /\ ppPc = "plumber"
    /\ ppPage > Len(ppIn.pages)
    /\ IF ppRows # <<>>
       THEN /\ ppPc' = "returned"
            /\ ppOut' = Some(ppRows)
            /\ UNCHANGED ppRan
       ELSE /\ ppPc' = "tabula"
            /\ ppRan' = Append(ppRan, "tabula")
            /\ UNCHANGED ppOut
    /\ UNCHANGED <<ppIn, ppPage, ppRows, arVars, pipeVars, scanVars, docVars, fnVars>>

\* parser.py:78-96  the tabula strategy appends its usable rows to the same
\* list; an exception is swallowed; return rows
Tabula ==
    /\ ppPc = "tabula"
    /\ ppRows' = ppRows \o ppIn.tabula.rows
    /\ ppOut' = Some(ppRows')
    /\ ppPc' = "returned"
    /\ UNCHANGED <<ppIn, ppPage, ppRan, arVars, pipeVars, scanVars, docVars, fnVars>>

NextParse == TryMaybank \/ PlumberPage \/ PlumberEnd \/ Tabula

SpecParse == InitParse /\ [][NextParse]_vars

\* ------------------------------------- the specification of parse_maybank_pdf
\* number of lines after the title and the statement date in a document
MaxDocLines == 3

\* tests/test_maybank_parser.py:28-38  the lines of the sample document
L_Title ==
    <<"S","T","A","T","E","M","E","N","T"," ","O","F"," ","C","R","E",
      "D","I","T"," ","C","A","R","D"," ","A","C","C","O","U","N","T">>
L_StatementDate ==
    <<"S","t","a","t","e","m","e","n","t"," ","D","a","t","e","/">>
L_12_JUL_25 ==
    <<"1","2"," ","J","U","L"," ","2","5">>
L_TestHeader ==
    <<"K","H","A","I","R","U","L"," ","A","N","W","A","R"," "," "," ",
      " ","V","I","S","A"," ","I","K","H","W","A","N"," ","P","L","A",
      "T","I","N","U","M"," "," "," "," "," "," ","1","2","3","4"," ",
      "5","6","7","8"," ","9","0","1","2"," ","7","1","4","1">>
L_ColumnHeads ==
    <<"P","o","s","t","i","n","g"," ","D","a","t","e"," ","/"," ","T",
      "a","r","i","k","h"," ","P","o","s"," "," "," "," ","T","r","a",
      "n","s","a","c","t","i","o","n"," ","D","a","t","e"," ","/"," ",
      "T","a","r","i","k","h"," ","T","r","a","n","s","a","k","s","i",
      " "," "," "," ","T","r","a","n","s","a","c","t","i","o","n"," ",
      "D","e","s","c","r","i","p","t","i","o","n"," ","/"," ","H","u",
      "r","a","i","a","n"," ","T","r","a","n","s","a","k","s","i"," ",
      " "," "," ","A","m","o","u","n","t"," ","(","R","M",")"," ","/",
      " ","A","m","a","u","n"," ","(","R","M",")">>
L_Row_Watsons ==
    <<"0","1","/","0","7"," ","3","0","/","0","6"," ","W","A","T","S",
      "O","N","'","S"," ","L","O","T","U","S","'","S"," ","M","U","T",
      "I","A","R","A"," ","J","O","H","O","R"," ","M","Y"," ","3","0",
      ".","4","0">>
L_Row_Rebate ==
    <<"0","1","/","0","7"," ","3","0","/","0","6"," ","C","A","S","H",
      " ","R","E","B","A","T","E"," ","9",".","5","2","C","R">>
L_Row_Pymt ==
    <<"1","8","/","0","6"," ","1","8","/","0","6"," ","P","Y","M","T",
      "@","M","A","Y","B","A","N","K","2","U",".","C","O","M"," ","3",
      ",","1","9","8",".","7","1","C","R">>

TestDocument ==
    <<L_Title, L_StatementDate, L_12_JUL_25, L_TestHeader, L_ColumnHeads,
      L_Row_Watsons, L_Row_Rebate, L_Row_Pymt>>

\* further lines: a card header with the colon card_header_re asks for, a
\* totals line, a row whose amount float() rejects, a line of no pattern
L_CardHeader ==
    <<"V","I","S","A"," ","I","K","H","W","A","N"," ","G","O","L","D",
      " ",":"," ","1","1","1","1"," ","2","2","2","2"," ","3","3","3",
      "3"," ","1","2","3","4">>
L_Total ==
    <<"T","O","T","A","L"," ","D","E","B","I","T"," ","T","H","I","S",
      " ","M","O","N","T","H">>
L_Row_BadAmount ==
    <<"0","2","/","0","7"," ","0","1","/","0","7"," ","K","E","D","A",
      "I"," ","1",".","2",".","3">>
L_Other ==
    <<"P","a","g","e"," ","1">>

BodyLines ==
    {L_CardHeader, L_TestHeader, L_Total, L_Row_Watsons, L_Row_Rebate,
     L_Row_BadAmount}

Bodies(n) == UNION { [1..k -> BodyLines] : k \in 0..n }

\* the page text handed to parse_maybank_pdf: the sample document; a title,
\* the statement date and up to MaxDocLines lines; and short documents
\* without the title, without a date, or with the date on a line of its own
DocumentTexts ==
    {TestDocument}
    \cup { <<L_Title, L_StatementDate, L_12_JUL_25>> \o body :
             body \in Bodies(MaxDocLines) }
    \cup { prefix \o body :
             prefix \in { <<L_Other, L_StatementDate, L_12_JUL_25>>,
                          <<L_Title, L_StatementDate>>,
                          <<L_Title, L_12_JUL_25>> },
             body \in Bodies(1) }

InitDoc ==
    /\ docText \in DocumentTexts
    /\ stmt_year = None
    /\ stmt_month = None
    /\ scPc = "open"
    /\ lines = <<>>
    /\ idx = 0
    /\ current_card_last4 = None
    /\ rows = <<>>
    /\ InitPipe([workers |-> {}, rows |-> 0, rules |-> 0, deliveries |-> 0])
    /\ RulesOff
    /\ FnOff /\ ParseOff

\* maybank.py:147-161  the sanity check, then the lines flattened; a text
\* without a title returns []
OpenDocument ==
    /\ scPc = "open"
    /\ IF IsMaybankStatement(docText)
       THEN /\ lines' = flatten(docText)
            /\ scPc' = "date"
       ELSE /\ lines' = lines
            /\ scPc' = "done"
    /\ UNCHANGED <<idx, current_card_last4, rows, docVars, arVars, pipeVars,
                   fnVars, ppVars>>

\* maybank.py:164-192  the statement anchor; without one the parser
\* returns []
FindStatementDate ==
    /\ scPc = "date"
    /\ LET a == statement_anchor(lines) IN
        /\ stmt_year' = a.year
        /\ stmt_month' = a.month
        /\ IF Known(a)
           THEN scPc' = "rows" /\ idx' = 1
           ELSE scPc' = "done" /\ idx' = idx
    /\ UNCHANGED <<docText, lines, current_card_last4, rows, arVars, pipeVars,
                   fnVars, ppVars>>

\* the iteration when the row pattern is tried before the totals marker
ScanTextLine_RowFirst ==
    /\ scPc = "rows"
    /\ idx <= Len(lines)
    /\ LET line == lines[idx]
           m_card == card_header_re(line)
           m_row == row_re(line)
       IN IF m_card # None
          THEN /\ current_card_last4' = Some(m_card[1])
               /\ rows' = rows
          ELSE IF current_card_last4 # None /\ m_row # None
          THEN /\ current_card_last4' = current_card_last4
               /\ rows' =
                    LET row == maybank_row(m_row[1],
                                           stmt_year[1], stmt_month[1],
                                           current_card_last4[1])
                    IN IF row # None THEN Append(rows, row[1]) ELSE rows
          ELSE /\ current_card_last4' =
                    IF total_re(line) THEN None ELSE current_card_last4
               /\ rows' = rows
    /\ idx' = idx + 1
    /\ UNCHANGED <<scPc, lines, docVars, arVars, pipeVars, fnVars, ppVars>>

\* maybank.py:208-257  one iteration of `for idx, line in enumerate(lines)`:
\* a card header sets the active card; otherwise a totals line clears it;
\* otherwise, with a card active, a line that row_re matches and whose
\* amount resolves is appended
ScanTextLine ==
    /\ scPc = "rows"
    /\ idx <= Len(lines)
    /\ LET line == lines[idx]
           m_card == card_header_re(line)
       IN IF m_card # None
          THEN /\ current_card_last4' = Some(m_card[1])
               /\ rows' = rows
          ELSE IF total_re(line)
          THEN /\ current_card_last4' = None
               /\ rows' = rows
          ELSE /\ current_card_last4' = current_card_last4
               /\ rows' =
                    LET m_row == row_re(line) IN
                    IF current_card_last4 # None /\ m_row # None
                    THEN LET row == maybank_row(m_row[1],
                                                stmt_year[1], stmt_month[1],
                                                current_card_last4[1])
                         IN IF row # None THEN Append(rows, row[1]) ELSE rows
                    ELSE rows
    /\ idx' = idx + 1
    /\ UNCHANGED <<scPc, lines, docVars, arVars, pipeVars, fnVars, ppVars>>

\* maybank.py:258  return rows
ScanTextReturn ==
    /\ scPc = "rows"
    /\ idx > Len(lines)
    /\ scPc' = "done"
    /\ UNCHANGED <<lines, idx, current_card_last4, rows, docVars, arVars,
                   pipeVars, fnVars, ppVars>>

NextDoc == OpenDocument \/ FindStatementDate \/ ScanTextLine \/ ScanTextReturn

SpecDoc == InitDoc /\ [][NextDoc]_vars

\* --------------------------- parse_maybank_pdf on documents of card sections
\* number of lines after the title and the statement date in a document of
\* card sections
MaxSectionLines == 3

\* a second card header, a row whose posting date names no day (31 June), and
\* a transaction line whose description holds a totals word (the totals line
\* of these documents)
L_CardHeader7141 ==
    <<"K","H","A","I","R","U","L"," ","A","N","W","A","R"," ","V","I",
      "S","A"," ","I","K","H","W","A","N"," ","P","L","A","T","I","N",
      "U","M"," ","N","O",".",":"," ","1","2","3","4"," ","5","6","7",
      "8"," ","9","0","1","2"," ","7","1","4","1">>
L_Row_BadDate ==
    <<"3","1","/","0","6"," ","3","0","/","0","6"," ","K","E","D","A",
      "I"," ","5",".","0","0">>
L_Row_Jumlah ==
    <<"0","3","/","0","7"," ","0","2","/","0","7"," ","K","E","D","A",
      "I"," ","J","U","M","L","A","H"," ","7",".","0","0">>

SectionLines ==
    {L_CardHeader, L_CardHeader7141, L_Row_Rebate, L_Row_BadAmount,
     L_Row_BadDate, L_Row_Jumlah}

\* the page text: the title, the statement date and up to MaxSectionLines
\* lines of card sections
SectionTexts ==
    { <<L_Title, L_StatementDate, L_12_JUL_25>> \o body :
        body \in UNION { [1..k -> SectionLines] : k \in 0..MaxSectionLines } }

InitSections ==
    /\ docText \in SectionTexts
    /\ stmt_year = None
    /\ stmt_month = None
    /\ scPc = "open"
    /\ lines = <<>>
    /\ idx = 0
    /\ current_card_last4 = None
    /\ rows = <<>>
    /\ InitPipe([workers |-> {}, rows |-> 0, rules |-> 0, deliveries |-> 0])
    /\ RulesOff
    /\ FnOff /\ ParseOff

SpecSections == InitSections /\ [][NextDoc]_vars

\* ----------------------- parse_maybank_pdf on documents of statement dates
\* number of lines between the title and the rest of a document of
\* statement dates
MaxAnchorLines == 3

\* a date token with an abbreviation MONTHS does not hold, one with a year
\* of the last century, one that shares its line with the anchor phrase, and
\* one that follows the varied lines
L_12_XYZ_25 ==
    <<"1","2"," ","X","Y","Z"," ","2","5">>
L_05_JAN_70 ==
    <<"0","5"," ","J","A","N"," ","7","0">>
L_SD_31_DEC_69 ==
    <<"S","t","a","t","e","m","e","n","t"," ","D","a","t","e"," ",":",
      " ","3","1"," ","D","E","C"," ","6","9">>
L_01_FEB_24 ==
    <<"0","1"," ","F","E","B"," ","2","4">>

AnchorLinePool ==
    {L_StatementDate, L_12_JUL_25, L_12_XYZ_25, L_05_JAN_70, L_SD_31_DEC_69,
     L_Other}

\* the page text: the title, up to MaxAnchorLines varied lines, two lines
\* without a token, a date token, a card header and a transaction line
AnchorTexts ==
    { <<L_Title>> \o head
        \o <<L_Other, L_Other, L_01_FEB_24, L_CardHeader, L_Row_Rebate>> :
        head \in UNION { [1..k -> AnchorLinePool] : k \in 0..MaxAnchorLines } }

InitAnchor ==
    /\ docText \in AnchorTexts
    /\ stmt_year = None
    /\ stmt_month = None
    /\ scPc = "open"
    /\ lines = <<>>
    /\ idx = 0
    /\ current_card_last4 = None
    /\ rows = <<>>
    /\ InitPipe([workers |-> {}, rows |-> 0, rules |-> 0, deliveries |-> 0])
    /\ RulesOff
    /\ FnOff /\ ParseOff

SpecAnchor == InitAnchor /\ [][NextDoc]_vars

\* --------------------------------------------------- claims on apply_rules
\* the active rules of a list whose pattern is a case-insensitive substring
\* of the transaction's description
MatchingRules(tx, rs) ==
    { i \in 1..Len(rs) :
        /\ rs[i].status = "active"
        /\ Contains(lower(rs[i].pattern), lower(OrEmpty(tx.description))) }

\* the matching rule with the smallest priority, ties broken by smallest id
Winner(tx, rs) ==
    CHOOSE i \in MatchingRules(tx, rs) :
        \A j \in MatchingRules(tx, rs) :
            \/ rs[i].priority < rs[j].priority
            \/ /\ rs[i].priority = rs[j].priority
               /\ rs[i].id <= rs[j].id

\* C1: once apply_rules has been called with a list in which some active rule
\* matches the description, the call has returned and the transaction carries
\* the category and subcategory of the matching rule with the smallest
\* (priority, id), whatever the order of the list.
C1_PriorityThenId ==
    (arPc # "call" /\ MatchingRules(arTx, arRules) # {}) =>
        /\ arPc = "returned"
        /\ arOut.category_id = arRules[Winner(arTx, arRules)].category_id
        /\ arOut.subcategory = arRules[Winner(arTx, arRules)].subcategory

\* C9: once apply_rules has been called with a list in which no active rule
\* matches the description, category_id and subcategory are what they were
\* before the call.
C9_NoMatchLeavesFields ==
    (arPc # "call" /\ MatchingRules(arTx, arRules) = {}) =>
        /\ arOut.category_id = arTx.category_id
        /\ arOut.subcategory = arTx.subcategory

\* C9 witness: a finished call with a non-empty rule list, none of whose
\* active rules matches, on a transaction that already carried a category
C9_Witness ==
    /\ arPc # "call"
    /\ arRules # <<>>
    /\ MatchingRules(arTx, arRules) = {}
    /\ arTx.category_id # None
    /\ arOut.category_id = arTx.category_id

\* the list without its rules whose status is not active
RECURSIVE ActiveOnly(_)
ActiveOnly(rs) ==
    IF rs = <<>> THEN <<>>
    ELSE IF Head(rs).status = "active"
         THEN <<Head(rs)>> \o ActiveOnly(Tail(rs))
         ELSE ActiveOnly(Tail(rs))

C2_ReapplyIdempotent ==
    LET first == reapply_all(rules, transactions)
        second == reapply_all(rules, first.txs)
    IN /\ ~first.raised
       /\ ~second.raised
       /\ Assignments(second.txs) = Assignments(first.txs)

\* the columns of the dedup guard
DedupKey(t) == <<t.statement_id, t.txn_date, t.description, t.amount>>

\* C3: no two stored transactions share (statement_id, txn_date, description,
\* amount), a row whose transaction date is unknown included: a row ingested
\* twice for a statement is stored once.
C3_DedupInvariant ==
    \A i, j \in 1..Len(transactions) :
        i # j => DedupKey(transactions[i]) # DedupKey(transactions[j])

\* the last run for statement s ended after it had attempted every row of the
\* file and met no failure other than duplicate rows
RowsAllAttempted(s) ==
    /\ ended[s] # None
    /\ ended[s][1].exc \notin {Some("OSError"), Some("IntegrityError"),
                               Some("PendingRollbackError")}
    /\ Len(ended[s][1].log) = Len(files[s])
    /\ \A i \in 1..Len(files[s]) : ended[s][1].log[i] \in {"inserted", "duplicate"}

\* C4: a run of queue_parse that read and parsed the file and persisted its
\* rows with no failure other than duplicates leaves the statement processed
\* with no error message, whatever rules and transactions are stored.
C4_EndsProcessed ==
    \A s \in StmtIds :
        RowsAllAttempted(s) =>
            /\ stmts[s].status = "processed"
            /\ stmts[s].error_message = None

\* C5: once a run of queue_parse for a statement has ended, the statement is
\* processed or failed, and when an exception was raised during the run it is
\* failed with the exception as its error message.
C5_EndsProcessedOrFailed ==
    \A s \in StmtIds :
        ended[s] # None =>
            /\ stmts[s].status \in {"processed", "failed"}
            /\ ended[s][1].exc # None =>
                /\ stmts[s].status = "failed"
                /\ stmts[s].error_message = ended[s][1].exc

\* row i of worker w's file is stored for its statement
RowStored(w, i) ==
    LET tx == BuildTransaction(wStmt[w], wRows[w][i], None, transactions) IN
    \E k \in 1..Len(transactions) :
        DedupKey(transactions[k]) = DedupKey(tx)

\* C6: in every run, each row handled so far was inserted or skipped as a
\* duplicate and is stored for the statement (rows before and after a
\* duplicate alike); the Session stays usable after a duplicate, no
\* exception caused by it leaves the row loop, and a statement ends failed
\* only through an exception other than the duplicate.
C6_DuplicateAbsorbed ==
    /\ \A w \in Workers :
        /\ \A i \in 1..Len(wLog[w]) :
            /\ wLog[w][i] \in {"inserted", "duplicate"}
            /\ RowStored(w, i)
        /\ pc[w] \in {"row", "create", "persist", "reapply"} => wSess[w] = "active"
        /\ wExc[w] # Some("PendingRollbackError")
    /\ \A s \in StmtIds :
        ended[s] # None =>
            /\ \A i \in 1..Len(ended[s][1].log) :
                ended[s][1].log[i] \in {"inserted", "duplicate"}
            /\ stmts[s].status = "failed" =>
                ended[s][1].exc \in {Some("OSError"), Some("IntegrityError"),
                                     Some("NameError")}

\* C6 witness: a run in which a row was skipped as a duplicate and a later
\* row of the same parse was inserted
C6_Witness ==
    \E w \in Workers : \E i, j \in 1..Len(wLog[w]) :
        /\ i < j
        /\ wLog[w][i] = "duplicate"
        /\ wLog[w][j] = "inserted"
        /\ RowStored(w, j)

NamesCategory(s, name) ==
    \E i \in 1..Len(files[s]) : Get(files[s][i], "category") = name

\* every row of the file of statement s is stored for s
AllRowsStored(s) ==
    \A i \in 1..Len(files[s]) :
        \E k \in 1..Len(transactions) :
            DedupKey(transactions[k]) =
                DedupKey(BuildTransaction(s, files[s][i], None, transactions))

\* C8: when the runs for two different statements whose rows name the same
\* category have ended (no rule stored, both files read), exactly one
\* Category of that name exists, both statements are processed and their
\* rows are stored.
C8_SameCategoryRace ==
    \A s1, s2 \in StmtIds :
        ( /\ s1 # s2
          /\ ended[s1] # None /\ ended[s2] # None
          /\ NamesCategory(s1, Fuel) /\ NamesCategory(s2, Fuel)
          /\ rules = <<>>
          /\ ended[s1][1].exc # Some("OSError")
          /\ ended[s2][1].exc # Some("OSError") ) =>
            /\ Cardinality({ i \in 1..Len(categories) : categories[i] = Fuel }) = 1
            /\ stmts[s1].status = "processed" /\ stmts[s2].status = "processed"
            /\ AllRowsStored(s1) /\ AllRowsStored(s2)

\* ------------------------------------------------- claims on the line scan
\* the most recent card-header line before line k, or 0
LastHeader(k) ==
    IF \E h \in 1..(k - 1) : lines[h].card # None
    THEN CHOOSE h \in 1..(k - 1) :
            /\ lines[h].card # None
            /\ \A j \in (h + 1)..(k - 1) : lines[j].card = None
    ELSE 0

\* a card section is open at line k: a card header has been seen and no
\* totals line since
SectionOpen(k) ==
    /\ LastHeader(k) # 0
    /\ \A j \in (LastHeader(k) + 1)..(k - 1) : ~lines[j].total

\* C10: every emitted row comes from a line that matches the row pattern and
\* lies in an open card section, and its card_last4 is the last4 of the most
\* recent card-header line.
C10_RowsOnlyInOpenSection ==
    \A n \in 1..Len(rows) :
        LET k == rows[n].line IN
        /\ lines[k].row # None
        /\ SectionOpen(k)
        /\ rows[n].card_last4 = lines[LastHeader(k)].card[1]

\* C10 witness: a finished scan that emitted a row inside a section and
\* emitted nothing for a row line that follows a totals line
C10_Witness ==
    /\ scPc = "done"
    /\ rows # <<>>
    /\ \E k \in 1..Len(lines) :
        /\ Emits(lines[k], Some("7141"))
        /\ LastHeader(k) # 0
        /\ ~SectionOpen(k)
        /\ \A n \in 1..Len(rows) : rows[n].line # k

\* ------------------------------------------------- claims on _infer_date
\* the day and the month a DD/MM token names
TokenDay(t) == 10 * DigitVal(t[1]) + DigitVal(t[2])
TokenMonth(t) == 10 * DigitVal(t[4]) + DigitVal(t[5])

\* the year the claim gives a token under an anchor
ClaimedYear(t, y, m) == IF TokenMonth(t) > m THEN y - 1 ELSE y

\* C12: for every day/month token that names a day of the calendar in the
\* year the rule gives it, _infer_date returns (stmt_year - 1, MM, DD) when
\* MM > stmt_month and (stmt_year, MM, DD) otherwise; under anchor (2025, 7)
\* 30/06 gives 2025-06-30 and 01/07 gives 2025-07-01.
C12_YearRollback ==
    (fnPc = "returned" /\ fnIn.fn = "_infer_date") =>
        LET t == fnIn.day_month
            y == ClaimedYear(t, fnIn.stmt_year, fnIn.stmt_month)
        IN /\ ValidDate(y, TokenMonth(t), TokenDay(t)) =>
                fnOut = Some(<<y, TokenMonth(t), TokenDay(t)>>)
           /\ (fnIn.stmt_year = 2025 /\ fnIn.stmt_month = 7) =>
                /\ t = <<"3","0","/","0","6">> => fnOut = Some(<<2025, 6, 30>>)
                /\ t = <<"0","1","/","0","7">> => fnOut = Some(<<2025, 7, 1>>)

\* C12 witness: a December token on a January statement came back dated in
\* the year before the statement
C12_Witness ==
    /\ fnPc = "returned"
    /\ fnIn.fn = "_infer_date"
    /\ fnIn.stmt_month = 1
    /\ fnIn.day_month = <<"3","1","/","1","2">>
    /\ fnOut = Some(<<fnIn.stmt_year - 1, 12, 31>>)

\* ------------------------------------------------ claims on _parse_amount
\* a finished call of _parse_amount
AmountReturned == fnPc = "returned" /\ fnIn.fn = "_parse_amount"

\* C13: without the explicit-credit flag, '9.52CR' normalizes to -9.52,
\* '3,198.71CR' to -3198.71 and '30.40' to 30.40.
C13_TrailingCRIsCredit ==
    (AmountReturned /\ ~fnIn.is_credit) =>
        /\ fnIn.amount_str = T_9_52CR =>
                fnOut = Some([num |-> -952, scale |-> 2])
        /\ fnIn.amount_str = T_3_198_71CR =>
                fnOut = Some([num |-> -319871, scale |-> 2])
        /\ fnIn.amount_str = T_30_40 =>
                fnOut = Some([num |-> 3040, scale |-> 2])

\* the token is a number in plain notation: digits, points and commas
PlainNumber(t) == t # <<>> /\ \A i \in 1..Len(t) : IsDigit(t[i]) \/ t[i] \in {".", ","}
\* some digit of the token is not zero
NonZero(t) == \E i \in 1..Len(t) : IsDigit(t[i]) /\ t[i] # "0"
\* the token is wrapped in parentheses
Wrapped(t) == Len(t) >= 2 /\ t[1] = "(" /\ t[Len(t)] = ")"

KeysIn(d) ==
    { i \in 1..Len(CATEGORY_MAPPING) : Contains(CATEGORY_MAPPING[i].key, upper(d)) }

\* the general part of C15: the first key in definition order that occurs
\* in the upper-cased description decides, and no key gives no category
FirstKeyDecides(d, out) ==
    /\ KeysIn(d) = {} => out = [category |-> None, subcategory |-> None]
    /\ KeysIn(d) # {} =>
        \E i \in KeysIn(d) :
            /\ \A j \in KeysIn(d) : i <= j
            /\ out.category = CATEGORY_MAPPING[i].category
            /\ out.subcategory = CATEGORY_MAPPING[i].subcategory

C16_FallbackExactlyOnNoRows ==
    /\ ppPc # "raised"
    /\ ppPc \notin {"off", "maybank"} =>
        IF ~ppIn.maybank.raises /\ ppIn.maybank.rows # <<>>
        THEN ppPc = "returned" /\ ppOut = Some(ppIn.maybank.rows) /\ ppRan = <<"maybank">>
        ELSE Len(ppRan) >= 2 /\ ppRan[2] = "plumber"

\* C16 witness: the specialized parser raised and the call returned rows of
\* the fallback
C16_Witness ==
    /\ ppPc = "returned"
    /\ ppIn.maybank.raises
    /\ ppOut = Some(<<RowPlumber>>)

\* the extractor a returned row came from
StrategyOf(r) == IF "source" \in DOMAIN r THEN r.source ELSE r.raw

\* C19: the strategies run in the order pdfplumber, tabula, and the rows
\* parse_pdf_bytes returns all come from one strategy, also when pdfplumber
\* raised after it had collected rows.
C19_SingleStrategy ==
    (ppPc = "returned") =>
        /\ ppRan \in {<<"maybank">>, <<"maybank", "plumber">>,
                      <<"maybank", "plumber", "tabula">>}
        /\ \A i, j \in 1..Len(ppOut[1]) :
                StrategyOf(ppOut[1][i]) = StrategyOf(ppOut[1][j])

\* ------------------------------------------------- claims on reapply_all
\* the classification the rule set gives a transaction: that of the winning
\* rule, or the one it has when no active rule matches
Intended(tx, rs) ==
    IF MatchingRules(tx, rs) = {}
    THEN <<tx.category_id, tx.subcategory>>
    ELSE <<rs[Winner(tx, rs)].category_id, rs[Winner(tx, rs)].subcategory>>

C17_NoRowsEndsProcessed ==
    \A s \in StmtIds :
        (/\ ended[s] # None
         /\ files[s] = <<>>
         /\ ended[s][1].exc # Some("OSError")) =>
            /\ \A i \in 1..Len(transactions) : transactions[i].statement_id # s
            /\ stmts[s].status = "processed"
            /\ stmts[s].error_message = None

\* ---------------------------------------------- claims on parse_maybank_pdf
\* the last line before line k of the flattened text that card_header_re
\* matches (0 when there is none)
LastCardHeader(k) ==
    LET hs == { h \in 1..(k - 1) : card_header_re(lines[h]) # None } IN
    IF hs = {} THEN 0 ELSE CHOOSE h \in hs : \A j \in hs : j <= h

\* line k lies in an open card section and is itself a transaction line
\* whose amount resolves
YieldsRow(k) ==
    /\ LastCardHeader(k) # 0
    /\ \A j \in (LastCardHeader(k) + 1)..k : ~total_re(lines[j])
    /\ card_header_re(lines[k]) = None
    /\ row_re(lines[k]) # None
    /\ _parse_amount(Strip(row_re(lines[k])[1].amount),
                     row_re(lines[k])[1].cr) # None

\* C11: a document that passes the format check and has a statement date
\* yields one row per transaction line in an open card section whose amount
\* resolves, in document order; the sample document (a card header line
\* ending 7141, statement date 12 JUL 25, three transaction lines) yields
\* exactly 3 rows, each with card_last4 7141.
C11_OneRowPerLine ==
    (scPc = "done" /\ stmt_year # None /\ stmt_month # None) =>
        LET yielding == { k \in 1..Len(lines) : YieldsRow(k) } IN
        /\ Len(rows) = Cardinality(yielding)
        /\ \A i \in 1..Len(rows) :
             \E k \in yielding :
                /\ Cardinality({ j \in yielding : j < k }) = i - 1
                /\ rows[i].description_raw = Strip(row_re(lines[k])[1].desc)
        /\ docText = TestDocument =>
             /\ Len(rows) = 3
             /\ \A i \in 1..Len(rows) :
                    rows[i].card_last4 = <<"7", "1", "4", "1">>

\* ------------------------------------------ claims on the card-section scan
\* what the three patterns give on each line of the flattened text
RECURSIVE TestsOf(_)
TestsOf(text) ==
    IF text = <<>> THEN <<>>
    ELSE << [card |-> card_header_re(Head(text)),
             total |-> total_re(Head(text)),
             row |-> row_re(Head(text))] >> \o TestsOf(Tail(text))
LineTests == TestsOf(lines)

\* the last card header before line k (0 when there is none), t being the
\* line tests
LastHeaderBefore(t, k) ==
    LET hs == { h \in 1..(k - 1) : t[h].card # None } IN
    IF hs = {} THEN 0 ELSE CHOOSE h \in hs : \A j \in hs : j <= h

\* the card that is active once lines 1..k are scanned: the last4 of the
\* last card header among them, unless a line after that header holds a
\* totals marker
ActiveCardAfter(t, k) ==
    LET h == LastHeaderBefore(t, k + 1) IN
    IF h = 0 \/ \E j \in (h + 1)..k : t[j].total THEN None
    ELSE t[h].card

\* the matched rows of the scan, by line number: a card is active, the line
\* is neither a card header nor a totals line, and the row pattern matches
MatchedRows(t) ==
    { k \in DOMAIN t :
        /\ ActiveCardAfter(t, k - 1) # None
        /\ t[k].card = None
        /\ ~t[k].total
        /\ t[k].row # None }

\* an amount token of the row pattern reads as a number: without its commas
\* it holds at least one digit and at most one point
ReadsAsNumber(tok) ==
    LET d == Remove(tok, ",") IN
    /\ \E i \in 1..Len(d) : IsDigit(d[i])
    /\ Cardinality({ i \in 1..Len(d) : d[i] = "." }) <= 1

\* the matched rows whose amount reads as a number
KeptRows(t) == { k \in MatchedRows(t) : ReadsAsNumber(t[k].row[1].amount) }

\* the date a DD/MM token of the row pattern names under the statement
\* anchor: the statement year, or the year before for a month after the
\* statement month; None when that year has no such day
DateNamed(tok, year, month) ==
    LET d == DigitsValue(SubSeq(tok, 1, 2))
        m == DigitsValue(SubSeq(tok, 4, 5))
        y == IF m > month THEN year - 1 ELSE year
    IN IF m \in 1..12 /\ d \in 1..DaysIn(y, m)
       THEN Some([str |-> TRUE, ymd |-> <<y, m, d>>])
       ELSE None

\* the i-th element of a set of line numbers
NthLine(S, i) == CHOOSE k \in S : Cardinality({ j \in S : j < k }) = i - 1

\* C21: a matched row is dropped exactly when its amount does not resolve;
\* a matched row whose posting or transaction date names no day is emitted
\* with that date null, and the scan runs to its end.
C21_DroppedIffAmountUnresolved ==
    (scPc = "done" /\ stmt_year # None /\ stmt_month # None) =>
        LET t == LineTests
            kept == KeptRows(t)
        IN /\ Len(rows) = Cardinality(kept)
           /\ \A i \in 1..Len(rows) :
                LET m == t[NthLine(kept, i)].row[1] IN
                /\ rows[i].description_raw = Strip(m.desc)
                /\ rows[i].posting_date =
                      DateNamed(m.post, stmt_year[1], stmt_month[1])
                /\ rows[i].transaction_date =
                      DateNamed(m.tran, stmt_year[1], stmt_month[1])

\* C21 witness: a finished scan that dropped a matched row for its amount
\* and emitted a row with a null posting date and a transaction date
C21_Witness ==
    /\ scPc = "done"
    /\ LET t == LineTests IN MatchedRows(t) # KeptRows(t)
    /\ \E i \in 1..Len(rows) :
          /\ rows[i].posting_date = None
          /\ rows[i].transaction_date # None

\* ---------------------------------------- claims on the statement anchor
\* the lines that hold the anchor phrase
PhraseLines == { i \in 1..Len(lines) : SearchLiteral(Statement_Date, lines[i]) }

\* the lines that hold a DD MMM YY token
TokenLines == { k \in 1..Len(lines) : search_date(lines[k]) # None }

\* the first token within the three lines that follow line i, or None
WindowToken(i) ==
    LET ks == { k \in TokenLines : k > i /\ k <= i + 3 } IN
    IF ks = {} THEN None ELSE search_date(lines[Least(ks)])

\* a token is usable: its abbreviation is one of MONTHS
Usable(tok) == tok # None /\ MONTHS_get(tok[1].mon_abbr) # None

\* the token the anchor is taken from: the window token of the first phrase
\* line that has a usable one, otherwise the first token of the document
AnchorToken ==
    LET yielding == { i \in PhraseLines : Usable(WindowToken(i)) } IN
    IF yielding # {} THEN WindowToken(Least(yielding))
    ELSE IF TokenLines # {} THEN search_date(lines[Least(TokenLines)])
    ELSE None

\* 2000 + yy for yy < 70, otherwise 1900 + yy
PivotYear(yr) ==
    LET yy == 10 * DigitVal(yr[1]) + DigitVal(yr[2]) IN
    IF yy < 70 THEN 2000 + yy ELSE 1900 + yy

\* C22: the statement anchor is that of the first DD MMM YY token within
\* the 3 lines after a line with the 'Statement Date' phrase; when no phrase
\* line yields a usable token, that of the first token of the document; the
\* year is 2000+yy for yy < 70 and 1900+yy otherwise; without a usable token
\* the parser returns no rows.
C22_StatementAnchor ==
    (scPc \in {"rows", "done"} /\ lines # <<>>) =>
        IF Usable(AnchorToken)
        THEN /\ stmt_year = Some(PivotYear(AnchorToken[1].yr))
             /\ stmt_month = MONTHS_get(AnchorToken[1].mon_abbr)
             /\ \A i \in 1..Len(rows) :
                    rows[i].statement_month = <<stmt_year[1], stmt_month[1]>>
        ELSE scPc = "done" /\ rows = <<>>

\* C22 witness: a finished parse with rows whose anchor is the first token
\* of the document, of the year 1970, although a phrase line is there
C22_Witness ==
    /\ scPc = "done"
    /\ rows # <<>>
    /\ PhraseLines # {}
    /\ \A i \in PhraseLines : ~Usable(WindowToken(i))
    /\ stmt_year = Some(1970)

\* ------------------------------------- claims on the order of the line tests
\* C23: each line is tested against the card header, then the totals
\* marker, then the row pattern, and only the first match acts: a
\* transaction line with a totals word emits no row and closes the section
\* until the next card header; a card header in an open section switches
\* the active card.
C23_FirstMatchActs ==
    (scPc = "done" /\ stmt_year # None /\ stmt_month # None) =>
        LET t == LineTests
            kept == KeptRows(t)
        IN /\ current_card_last4 = ActiveCardAfter(t, Len(lines))
           /\ Len(rows) = Cardinality(kept)
           /\ \A i \in 1..Len(rows) :
                LET k == NthLine(kept, i) IN
                /\ ~t[k].total
                /\ rows[i].description_raw = Strip(t[k].row[1].desc)
                /\ rows[i].card_last4 = t[LastHeaderBefore(t, k)].card[1]

\* C23 witness: a finished scan in which a transaction line with a totals
\* word closed an open section and a later transaction line was skipped
C23_Witness ==
    /\ scPc = "done"
    /\ rows = <<>>
    /\ LET t == LineTests IN
       \E k \in DOMAIN t :
          /\ ActiveCardAfter(t, k - 1) # None
          /\ t[k].card = None
          /\ t[k].row # None
          /\ t[k].total
          /\ \E j \in (k + 1)..Len(lines) :
                /\ t[j].card = None
                /\ t[j].row # None
                /\ ~t[j].total
                /\ ReadsAsNumber(t[j].row[1].amount)

\* ------------------------------------------- claims on what a failure keeps
\* the stored row behind transaction t, without its classification
StoredRow(t) ==
    <<t.id, t.statement_id, t.txn_date, t.post_date, t.description, t.amount,
      t.raw_row_json>>

\* C24: no step of the pipeline, the handler that marks a statement failed
\* included, removes a committed transaction or a committed category: every
\* transaction stored before the step is stored after it under the same id
\* and for the same statement, and every category keeps its id and name.
C24_CommittedRowsStay ==
    [][ /\ Len(transactions') >= Len(transactions)
        /\ \A i \in 1..Len(transactions) :
              StoredRow(transactions'[i]) = StoredRow(transactions[i])
        /\ Len(categories') >= Len(categories)
        /\ \A i \in 1..Len(categories) : categories'[i] = categories[i] ]_vars

\* C24 witness: a run that inserted a row and created a category, failed
\* afterwards, and whose statement is marked failed while it owns a
\* transaction
C24_Witness ==
    \E s \in StmtIds :
        /\ ended[s] # None
        /\ ended[s][1].exc # None
        /\ stmts[s].status = "failed"
        /\ \E k \in 1..Len(ended[s][1].log) : ended[s][1].log[k] = "inserted"
        /\ \E i \in 1..Len(transactions) : transactions[i].statement_id = s
        /\ categories # <<>>

\* --------------------------------------- claims on rows the guard merges
\* the guard columns of row i of worker w's file
RowKey(w, i) ==
    DedupKey(BuildTransaction(wStmt[w], wRows[w][i], None, <<>>))

\* the first row of worker w's file with the guard columns of row j
FirstWithKey(w, j) ==
    CHOOSE i \in 1..j :
        /\ RowKey(w, i) = RowKey(w, j)
        /\ \A k \in 1..(i - 1) : RowKey(w, k) # RowKey(w, j)

\* the stored transactions of statement s
OwnedBy(s) == { k \in 1..Len(transactions) : transactions[k].statement_id = s }

\* C25: a handled row with a transaction date that agrees with an earlier row
\* of the same parse on (transaction date, description, amount) is skipped
\* as a duplicate, whatever its card, posting date and raw description: one
\* transaction is stored for the two, and in the first run for the statement
\* the stored one is the earlier row, which was inserted, and the statement
\* owns fewer transactions than rows were handled.
C25_SecondRowSkipped ==
    \A w \in Workers :
        \A j \in 1..Len(wLog[w]) :
            LET i == FirstWithKey(w, j)
                same == { k \in OwnedBy(wStmt[w]) :
                            DedupKey(transactions[k]) = RowKey(w, j) }
            IN (i < j /\ RowKey(w, j)[2] # None) =>
                /\ wLog[w][j] = "duplicate"
                /\ Cardinality(same) = 1
                /\ ended[wStmt[w]] = None =>
                    /\ Cardinality(OwnedBy(wStmt[w])) < Len(wLog[w])
                    /\ wLog[w][i] = "inserted"
                    /\ \A k \in same :
                         transactions[k].raw_row_json = wRows[w][i]

\* C25 witness: a first run handled two rows that agree on the guard columns
\* and differ in card, posting date and raw description; one transaction is
\* stored for a file of two rows
C25_Witness ==
    \E w \in Workers :
        /\ Len(wRows[w]) = 2
        /\ Len(wLog[w]) = 2
        /\ ended[wStmt[w]] = None
        /\ RowKey(w, 1) = RowKey(w, 2)
        /\ RowKey(w, 1)[2] # None
        /\ Get(wRows[w][1], "card_last4") # Get(wRows[w][2], "card_last4")
        /\ Get(wRows[w][1], "posting_date") # Get(wRows[w][2], "posting_date")
        /\ Get(wRows[w][1], "description_raw") # Get(wRows[w][2], "description_raw")
        /\ wLog[w] = <<"inserted", "duplicate">>
        /\ Cardinality(OwnedBy(wStmt[w])) = 1

\* ------------------------------------------ claims on what a rule overwrites
\* C26: once apply_rules has been called with a list in which some active
\* rule matches the description, the transaction carries the category and the
\* subcategory of a matching active rule, whatever it carried before the
\* call (a category assigned at ingestion included).
C26_MatchOverwritesBoth ==
    (arPc # "call" /\ MatchingRules(arTx, arRules) # {}) =>
        \E i \in MatchingRules(arTx, arRules) :
            /\ arOut.category_id = arRules[i].category_id
            /\ arOut.subcategory = arRules[i].subcategory

====
